---------------------------- MODULE Spec2Model ----------------------------
(***************************************************************************)
(* A model of the lock-free core and of the schedulers of async_toolkit:   *)
(*   memory/memory_pool.hpp     MemoryPool<T>  (mutex-guarded free list)   *)
(*   lockfree/mpmc_queue.hpp    MPMCQueue<T>   (Michael-Scott style queue) *)
(*   lockfree/mpmc_channel.hpp  MPMCChannel<T> (the same with timeouts)    *)
(*   scheduler/priority_scheduler.hpp       PriorityScheduler   (SpecPS)   *)
(*   scheduler/work_stealing_scheduler.hpp  WorkStealingScheduler (SpecWS) *)
(*   coroutine/scheduler.hpp                coroutine::Scheduler  (SpecCo) *)
(*                                                                         *)
(* Every access to an atomic (load, store, compare_exchange, fetch_add)    *)
(* and every pool call (which holds the pool mutex) is one step.  The      *)
(* program counter of a thread names the source line it is about to        *)
(* execute: "enq47" is line 47 of mpmc_queue.hpp, "snd102" is line 102 of  *)
(* mpmc_channel.hpp.  SpecQ runs an MPMCQueue, SpecCh an MPMCChannel and   *)
(* Spec either of them; both objects have the same fields (head_, tail_,   *)
(* size_, pool_).                                                          *)
(*                                                                         *)
(* Pool memory is never returned to the OS while the object lives, so a    *)
(* read through a stale pointer reads what the block holds at that moment  *)
(* (the old node, or the node a later allocate built in the same block).   *)
(* A dereference of nullptr ends the process: every pc becomes "crash".    *)
(***************************************************************************)
EXTENDS Integers, Sequences, FiniteSets, TLC

\* ----------------------------------------------------------------- bounds
NumThreads == 2      \* threads calling into the object
Capacity == 1        \* capacity_ given to the constructor
MaxVal == 2          \* calls of try_enqueue / try_send in one run
MaxDeq == 4          \* successful dequeues / receives in one run
ChunkBlocks == 3     \* blocks per Chunk (chunk_size / sizeof(Block))
MaxChunks == 1       \* chunks the pool may allocate in one run
MaxIters == 5        \* retry-loop iterations counted for an undisturbed call
MaxTime == 1         \* steady_clock ticks in one run
MaxTimeout == 1      \* largest timeout passed to try_send / try_receive
NumWorkers == 2      \* largest thread_count given to a scheduler
NumCallers == 1      \* threads calling into a scheduler
MaxTasks == 2        \* tasks submitted to a scheduler in one run
MaxPrio == 3         \* priorities are 1..MaxPrio
MaxCancels == 2      \* calls of PriorityScheduler::cancel in one run
MaxQueueSize == 1    \* max_queue_size of the ThreadPoolExecutor

Threads == 1..NumThreads
Blocks == 1..(MaxChunks * ChunkBlocks)
nullptr == 0
Values == 1..MaxVal

VARIABLES
    kind,        \* the class of the object: "queue", "channel", "priority"
                 \* (PriorityScheduler) or "stealing" (WorkStealingScheduler)
    head_,       \* std::atomic<Node*> head_
    tail_,       \* std::atomic<Node*> tail_
    size_,       \* std::atomic<size_t> size_: n < 0 stands for 2^64 + n
    mem,         \* the Node built in each block: next, data, committed
    free_list_,  \* MemoryPool::free_list_
    blk_next,    \* Block::next of each block (behind the Node, offset 4096)
    chunks_,     \* MemoryPool::chunks_.size()
    pc,          \* per thread: the line it is about to execute
    loc,         \* per thread: the locals of the call in progress
    now,         \* std::chrono::steady_clock::now()
    nextVal,     \* the value the next try_enqueue / try_send call passes
    enqBy,       \* history: value -> thread that passed it (0: not yet passed)
    enqOK,       \* history: values whose try_enqueue / try_send returned true
    deq,         \* history: values of the successful dequeues, in head_ order
    ret,         \* per thread: what its last call returned, until its next
    actors,      \* history: threads that have called into the object
    soloT,       \* the thread whose call no other thread has disturbed so far
    iters,       \* retry-loop iterations of soloT's call
    lin,         \* history: the sequential FIFO histories still possible
    thread_count,   \* the constructor argument of a scheduler
    tasks_,         \* PriorityScheduler::tasks_: the Tasks in the heap
    mutex_,         \* PriorityScheduler::mutex_: its holder (0: free)
    stop_,          \* PriorityScheduler::stop_
    next_task_id_,  \* PriorityScheduler::next_task_id_
    queues_,        \* WorkStealingScheduler::queues_: a deque per worker
    running_,       \* WorkStealingScheduler::running_
    thread_index_,  \* WorkStealingScheduler::thread_index_
    tl_index,       \* get_worker_index()'s thread_local index (-1: not set)
    wpc,            \* per worker thread: the line it is about to execute
    wtask,          \* per worker thread: the task it has taken
    cpc,            \* per calling thread: the line it is about to execute
    cloc,           \* per calling thread: the locals of its call
    submitted,      \* history: ids of the tasks handed to the scheduler
    ran,            \* history: the tasks started, in the order of the pops
    thrown,         \* history: ids of the tasks whose callable threw
    cancelled,      \* history: ids for which cancel returned true
    lastCancel,     \* history: number, argument and result of the last cancel
    live,           \* MemoryPool: the pointers allocate returned that have
                    \* not been passed to deallocate since
    futures,        \* per task: the shared state of its std::future
    rejected,       \* history: the tasks whose submit threw
    move_steals,    \* MPMCChannel<T>: T's move constructor empties its source
    state_,         \* coroutine::TaskBase::state_, per task
    cancelled_,     \* coroutine::CancellationToken::cancelled_, per task
    frame,          \* coroutine::Task<T>: the coroutine frame of handle_, per task
    task_queue_     \* coroutine::Scheduler::task_queue_, oldest first

\* The state of the schedulers: PriorityScheduler's, WorkStealingScheduler's,
\* and the threads and histories the models of both use.
psvars == <<tasks_, mutex_, stop_, next_task_id_, cancelled, lastCancel>>
wsvars == <<queues_, running_, thread_index_, tl_index>>
thrvars == <<wpc, wtask, cpc, cloc>>
histvars == <<submitted, ran, thrown>>
covars == <<state_, cancelled_, frame, task_queue_>>
extvars == <<live, futures, rejected, move_steals, covars>>
sched == <<thread_count, psvars, wsvars, thrvars, histvars, extvars>>

vars == <<kind, head_, tail_, size_, mem, free_list_, blk_next, chunks_, pc,
          loc, now, nextVal, enqBy, enqOK, deq, ret, actors, soloT, iters, lin,
          sched>>
pool == <<free_list_, blk_next, chunks_>>
shared == <<head_, tail_, size_, mem, free_list_, blk_next, chunks_>>
\* What only a call or a clock tick changes, and what only a return changes.
callvars == <<kind, sched, now, nextVal, enqBy, actors>>
retvars == <<ret, enqOK, lin>>

\* ------------------------------------------------------------- MemoryPool
\* A pool is the record [fl, bn, ch]: free_list_, Block::next, chunks_.size().

\* allocate_chunk(): thread the new chunk's blocks, the last one onto the
\* old free list, and make blocks[0] the head.
allocate_chunk(p) ==
    LET base == p.ch * ChunkBlocks
    IN  [fl |-> base + 1,
         bn |-> [b \in Blocks |->
                   IF b \in (base + 1)..(base + ChunkBlocks - 1) THEN b + 1
                   ELSE IF b = base + ChunkBlocks THEN p.fl
                   ELSE p.bn[b]],
         ch |-> p.ch + 1]

\* An allocate_block that hands out the head without popping it.
allocate_block_keep(p) ==
    LET q == IF p.fl = nullptr THEN allocate_chunk(p) ELSE p
    IN  [ptr |-> q.fl, pool |-> q]

\* allocate_block(): under the mutex; a new chunk when the list is empty,
\* then pop the head.  The result is [ptr, pool].
allocate_block(p) ==
    LET q == IF p.fl = nullptr THEN allocate_chunk(p) ELSE p
    IN  [ptr |-> q.fl, pool |-> [q EXCEPT !.fl = q.bn[q.fl]]]

\* A deallocate that destroys the object and forgets the block.
deallocate_drop(p, ptr) == p

\* deallocate(ptr): the destructor of Node is trivial; push the block.
deallocate(p, ptr) ==
    IF ptr = nullptr THEN p
    ELSE [p EXCEPT !.bn = [p.bn EXCEPT ![ptr] = p.fl], !.fl = ptr]

pool_ == [fl |-> free_list_, bn |-> blk_next, ch |-> chunks_]

\* The model stops growing the pool at MaxChunks chunks.
CanAllocate == free_list_ # nullptr \/ chunks_ < MaxChunks

SetPool(p) ==
    /\ free_list_' = p.fl
    /\ blk_next' = p.bn
    /\ chunks_' = p.ch

\* ------------------------------------------------------------------ size_
\* size_ is a std::size_t; the model keeps the representative n of
\* n mod 2^64 with -2^63 <= n < 2^63, so that 0 - 1 is the largest size_t.
\* A comparison that lets one more value in.
SizeGT(s, c) == s < 0 \/ s > c
\* size_.load() >= capacity_
SizeGE(s, c) == s < 0 \/ s >= c

\* ---------------------------------------------------------------- helpers
\* Node(): next(nullptr), data(T{}), committed(false)
ZeroNode == [next |-> nullptr, data |-> 0, committed |-> FALSE]
\* A node whose committed flag is still to be set.
Node_uncommitted(value) ==
    [next |-> nullptr, data |-> value, committed |-> FALSE]
\* MPMCChannel's Node(const T& value): next(nullptr), data(value),
\* committed(true)
Node(value) == [next |-> nullptr, data |-> value, committed |-> TRUE]
NoLocals == [head |-> nullptr, tail |-> nullptr, next |-> nullptr,
             node |-> nullptr, value |-> 0,
             timeout |-> 0, end_time |-> 0]
NoRet == [op |-> "none", ok |-> FALSE, val |-> 0]

Crashed == \E t \in Threads : pc[t] = "crash"
Quiescent == \A t \in Threads : pc[t] = "idle"

\* An outcome of compare_exchange_weak: it succeeds only when the object
\* holds the expected value, and may fail even then.
CasWeak(cur, expected) == IF cur = expected THEN {TRUE, FALSE} ELSE {FALSE}
\* compare_exchange_strong fails only when the values differ.
CasStrong(cur, expected) == {cur = expected}

\* Bookkeeping of the undisturbed call: a step of t leaves t undisturbed and
\* disturbs every other thread; `back` marks a retry-loop back edge.
Track(t, back) ==
    IF soloT = t
    THEN /\ soloT' = t
         /\ iters' = iters + (IF back THEN 1 ELSE 0)
    ELSE /\ soloT' = 0
         /\ iters' = 0
End(t) == soloT' = 0 /\ iters' = 0
\* A spurious compare_exchange_weak failure comes from outside the thread.
TrackCas(t, spurious) == IF spurious THEN End(t) ELSE Track(t, FALSE)
\* The count of an undisturbed call's iterations stops at MaxIters.
LoopGuard(t) == soloT = t => iters < MaxIters

\* ---------------------------------------------- the linearizability monitor
\* lin is the set of configurations [q, st] of an atomic FIFO queue that
\* agree with the calls and returns seen so far: q its content, st[t] what
\* the call of t in progress has done in it ("pend": nothing yet, "done":
\* taken effect, with the value a dequeue got).
NoOp == [s |-> "idle", op |-> "none", v |-> 0]
LinInit == {[q |-> <<>>, st |-> [t \in Threads |-> NoOp]]}

\* The configurations one pending call taking effect leads to.
LinStep(c) ==
    {[q |-> Append(c.q, c.st[t].v),
      st |-> [c.st EXCEPT ![t].s = "done"]] :
        t \in {u \in Threads : c.st[u].s = "pend" /\ c.st[u].op = "enq"}}
    \cup
    {[q |-> Tail(c.q),
      st |-> [c.st EXCEPT ![t].s = "done", ![t].v = Head(c.q)]] :
        t \in {u \in Threads : c.st[u].s = "pend" /\ c.st[u].op = "deq"
                                 /\ c.q # <<>>}}

RECURSIVE LinClose(_)
LinClose(S) ==
    LET N == S \cup UNION {LinStep(c) : c \in S}
    IN  IF N = S THEN S ELSE LinClose(N)

LinCall(t, op, v) ==
    {[c EXCEPT !.st[t] = [s |-> "pend", op |-> op, v |-> v]] : c \in lin}

\* A successful return: the call has taken effect, with this value.  A
\* failed call has no effect.
LinRet(t, ok, v) ==
    IF ok
    THEN {[c EXCEPT !.st[t] = NoOp] :
             c \in {d \in LinClose(lin) : d.st[t].s = "done" /\ d.st[t].v = v}}
    ELSE {[c EXCEPT !.st[t] = NoOp] : c \in {d \in lin : d.st[t].s = "pend"}}

\* ------------------------------------------------------- calls and returns
Goto(t, l) == pc' = [pc EXCEPT ![t] = l]

\* op is "enq" (try_enqueue, try_send) or "deq" (try_dequeue, try_receive).
Call(t, l, op, locals) ==
    /\ pc[t] = "idle"
    /\ Goto(t, l)
    /\ loc' = [loc EXCEPT ![t] = locals]
    /\ actors' = actors \cup {t}
    /\ lin' = LinCall(t, op, locals.value)
    /\ ret' = [ret EXCEPT ![t] = NoRet]
    /\ soloT' = t
    /\ iters' = 0
    /\ UNCHANGED <<kind, sched, shared, now, enqOK, deq>>

Return(t, op, ok, val) ==
    /\ pc' = [pc EXCEPT ![t] = "idle"]
    /\ ret' = [ret EXCEPT ![t] = [op |-> op, ok |-> ok, val |-> val]]
    /\ loc' = [loc EXCEPT ![t] = NoLocals]
    /\ enqOK' = IF op = "enq" /\ ok THEN enqOK \cup {val} ELSE enqOK
    /\ lin' = LinRet(t, ok, val)
    /\ End(t)

\* ------------------------------------------------------------ constructor
\* MPMCQueue(capacity) / MPMCChannel(capacity): allocate the dummy node
\* (Node(): next = nullptr, data = T{}, committed = false), head_ = tail_ =
\* dummy, size_ = 0.
Constructed ==
    allocate_block([fl |-> nullptr, bn |-> [b \in Blocks |-> nullptr], ch |-> 0])

\* No coroutine::Scheduler exists in a run of another class.
NoCoroutine ==
    /\ state_ = <<>>
    /\ cancelled_ = <<>>
    /\ frame = <<>>
    /\ task_queue_ = <<>>

\* No scheduler has been constructed.
NoScheduler ==
    /\ thread_count = 0
    /\ tasks_ = {}
    /\ mutex_ = 0
    /\ stop_ = FALSE
    /\ next_task_id_ = 0
    /\ queues_ = <<>>
    /\ running_ = FALSE
    /\ thread_index_ = 0
    /\ tl_index = <<>>
    /\ wpc = <<>>
    /\ wtask = <<>>
    /\ cpc = <<>>
    /\ cloc = <<>>
    /\ submitted = {}
    /\ ran = <<>>
    /\ thrown = {}
    /\ cancelled = {}
    /\ lastCancel = <<>>
    /\ live = {}
    /\ futures = <<>>
    /\ rejected = {}

Init ==
    /\ kind \in {"queue", "channel"}
    /\ move_steals \in (IF kind = "channel" THEN BOOLEAN ELSE {FALSE})
    /\ NoCoroutine
    /\ NoScheduler
    /\ head_ = Constructed.ptr
    /\ tail_ = Constructed.ptr
    /\ size_ = 0
    /\ mem = [b \in Blocks |-> ZeroNode]
    /\ free_list_ = Constructed.pool.fl
    /\ blk_next = Constructed.pool.bn
    /\ chunks_ = Constructed.pool.ch
    /\ pc = [t \in Threads |-> "idle"]
    /\ loc = [t \in Threads |-> NoLocals]
    /\ now = 0
    /\ nextVal = 1
    /\ enqBy = [v \in Values |-> 0]
    /\ enqOK = {}
    /\ deq = <<>>
    /\ ret = [t \in Threads |-> NoRet]
    /\ actors = {}
    /\ soloT = 0
    /\ iters = 0
    /\ lin = LinInit

\* ------------------------------------------------- MPMCQueue::try_enqueue
\* A call try_enqueue(value); the values passed are 1, 2, 3, ... in call order.
EnqCall(t) ==
    /\ kind = "queue"
    /\ nextVal <= MaxVal
    /\ Call(t, "enq35", "enq", [NoLocals EXCEPT !.value = nextVal])
    /\ nextVal' = nextVal + 1
    /\ enqBy' = [enqBy EXCEPT ![nextVal] = t]

\* line 35: if (size_.load() >= capacity_) return false;
Enq35(t) ==
    /\ pc[t] = "enq35"
    /\ IF SizeGE(size_, Capacity)
       THEN Return(t, "enq", FALSE, loc[t].value)
       ELSE Goto(t, "enq39") /\ Track(t, FALSE) /\ UNCHANGED <<loc, retvars>>
    /\ UNCHANGED <<shared, callvars, deq>>

\* line 39: auto node = pool_.allocate();  (Node{}: next = nullptr, data = T{})
Enq39(t) ==
    /\ pc[t] = "enq39"
    /\ CanAllocate
    /\ LET a == allocate_block(pool_)
       IN  /\ SetPool(a.pool)
           /\ mem' = [mem EXCEPT ![a.ptr] = ZeroNode]
           /\ loc' = [loc EXCEPT ![t].node = a.ptr]
    /\ Goto(t, "enq40")
    /\ Track(t, FALSE)
    /\ UNCHANGED <<head_, tail_, size_, callvars, retvars, deq>>

\* line 40: node->data = value;
Enq40(t) ==
    /\ pc[t] = "enq40"
    /\ mem' = [mem EXCEPT ![loc[t].node].data = loc[t].value]
    /\ Goto(t, "enq41")
    /\ Track(t, FALSE)
    /\ UNCHANGED <<head_, tail_, size_, pool, loc, callvars, retvars, deq>>

\* line 41: node->next.store(nullptr);
Enq41(t) ==
    /\ pc[t] = "enq41"
    /\ mem' = [mem EXCEPT ![loc[t].node].next = nullptr]
    /\ Goto(t, "enq43")
    /\ Track(t, FALSE)
    /\ UNCHANGED <<head_, tail_, size_, pool, loc, callvars, retvars, deq>>

\* line 43: Node* tail = tail_.load();
Enq43(t) ==
    /\ pc[t] = "enq43"
    /\ loc' = [loc EXCEPT ![t].tail = tail_]
    /\ Goto(t, "enq47")
    /\ Track(t, FALSE)
    /\ UNCHANGED <<shared, callvars, retvars, deq>>

\* line 47: next = tail->next.load();
Enq47(t) ==
    /\ pc[t] = "enq47"
    /\ loc' = [loc EXCEPT ![t].next = mem[loc[t].tail].next]
    /\ Goto(t, "enq48")
    /\ Track(t, FALSE)
    /\ UNCHANGED <<shared, callvars, retvars, deq>>

\* lines 48-49: if (tail == tail_.load()) { if (next == nullptr) ... else ... }
Enq48(t) ==
    /\ pc[t] = "enq48"
    /\ Goto(t, IF loc[t].tail = tail_
               THEN (IF loc[t].next = nullptr THEN "enq50" ELSE "enq54")
               ELSE "enq57")
    /\ Track(t, FALSE)
    /\ UNCHANGED <<shared, loc, callvars, retvars, deq>>

\* line 50: if (tail->next.compare_exchange_weak(next, node)) break;
Enq50(t) ==
    /\ pc[t] = "enq50"
    /\ \E ok \in CasWeak(mem[loc[t].tail].next, loc[t].next) :
         /\ IF ok
            THEN /\ mem' = [mem EXCEPT ![loc[t].tail].next = loc[t].node]
                 /\ Goto(t, "enq60")
                 /\ UNCHANGED loc
            ELSE /\ loc' = [loc EXCEPT ![t].next = mem[loc[t].tail].next]
                 /\ Goto(t, "enq57")
                 /\ UNCHANGED mem
         /\ TrackCas(t, ~ok /\ mem[loc[t].tail].next = loc[t].next)
    /\ UNCHANGED <<head_, tail_, size_, pool, callvars, retvars, deq>>

\* line 54: tail_.compare_exchange_weak(tail, next);
Enq54(t) ==
    /\ pc[t] = "enq54"
    /\ \E ok \in CasWeak(tail_, loc[t].tail) :
         /\ IF ok
            THEN tail_' = loc[t].next /\ UNCHANGED loc
            ELSE loc' = [loc EXCEPT ![t].tail = tail_] /\ UNCHANGED tail_
         /\ TrackCas(t, ~ok /\ tail_ = loc[t].tail)
    /\ Goto(t, "enq57")
    /\ UNCHANGED <<head_, size_, mem, pool, callvars, retvars, deq>>

\* line 57: tail = tail_.load();  (and back to line 47)
Enq57(t) ==
    /\ pc[t] = "enq57"
    /\ LoopGuard(t)
    /\ loc' = [loc EXCEPT ![t].tail = tail_]
    /\ Goto(t, "enq47")
    /\ Track(t, TRUE)
    /\ UNCHANGED <<shared, callvars, retvars, deq>>

\* line 60: tail_.compare_exchange_weak(tail, node);
Enq60(t) ==
    /\ pc[t] = "enq60"
    /\ \E ok \in CasWeak(tail_, loc[t].tail) :
         /\ IF ok
            THEN tail_' = loc[t].node /\ UNCHANGED loc
            ELSE loc' = [loc EXCEPT ![t].tail = tail_] /\ UNCHANGED tail_
         /\ TrackCas(t, ~ok /\ tail_ = loc[t].tail)
    /\ Goto(t, "enq61")
    /\ UNCHANGED <<head_, size_, mem, pool, callvars, retvars, deq>>

\* lines 61-62: size_.fetch_add(1); return true;
Enq61(t) ==
    /\ pc[t] = "enq61"
    /\ size_' = size_ + 1
    /\ Return(t, "enq", TRUE, loc[t].value)
    /\ UNCHANGED <<head_, tail_, mem, pool, callvars, deq>>

try_enqueue(t) ==
    \/ EnqCall(t) \/ Enq35(t) \/ Enq39(t) \/ Enq40(t) \/ Enq41(t)
    \/ Enq43(t) \/ Enq47(t) \/ Enq48(t) \/ Enq50(t) \/ Enq54(t)
    \/ Enq57(t) \/ Enq60(t) \/ Enq61(t)

\* ------------------------------------------------- MPMCQueue::try_dequeue
DeqCall(t) ==
    /\ kind = "queue"
    /\ Len(deq) < MaxDeq
    /\ Call(t, "deq66", "deq", NoLocals)
    /\ UNCHANGED <<nextVal, enqBy>>

\* line 66: if (size_.load() == 0) return false;
Deq66(t) ==
    /\ pc[t] = "deq66"
    /\ IF size_ = 0
       THEN Return(t, "deq", FALSE, 0)
       ELSE Goto(t, "deq70") /\ Track(t, FALSE) /\ UNCHANGED <<loc, retvars>>
    /\ UNCHANGED <<shared, callvars, deq>>

\* line 70: Node* head = head_.load();
Deq70(t) ==
    /\ pc[t] = "deq70"
    /\ loc' = [loc EXCEPT ![t].head = head_]
    /\ Goto(t, "deq71")
    /\ Track(t, FALSE)
    /\ UNCHANGED <<shared, callvars, retvars, deq>>

\* line 71: Node* tail = tail_.load();  (read once, before the loop)
Deq71(t) ==
    /\ pc[t] = "deq71"
    /\ loc' = [loc EXCEPT ![t].tail = tail_]
    /\ Goto(t, "deq75")
    /\ Track(t, FALSE)
    /\ UNCHANGED <<shared, callvars, retvars, deq>>

\* line 75: next = head->next.load();
Deq75(t) ==
    /\ pc[t] = "deq75"
    /\ loc' = [loc EXCEPT ![t].next = mem[loc[t].head].next]
    /\ Goto(t, "deq76")
    /\ Track(t, FALSE)
    /\ UNCHANGED <<shared, callvars, retvars, deq>>

\* lines 76-80: if (head == head_.load()) { if (head == tail) { if (next ==
\* nullptr) return false; else line 81 } else line 83 }
Deq76(t) ==
    /\ pc[t] = "deq76"
    /\ IF loc[t].head = head_ /\ loc[t].head = loc[t].tail
          /\ loc[t].next = nullptr
       THEN Return(t, "deq", FALSE, 0)
       ELSE /\ Goto(t, IF loc[t].head # head_ THEN "deq89"
                       ELSE IF loc[t].head = loc[t].tail THEN "deq81"
                       ELSE "deq83")
            /\ Track(t, FALSE)
            /\ UNCHANGED <<loc, retvars>>
    /\ UNCHANGED <<shared, callvars, deq>>

\* line 81: tail_.compare_exchange_weak(tail, next);
Deq81(t) ==
    /\ pc[t] = "deq81"
    /\ \E ok \in CasWeak(tail_, loc[t].tail) :
         /\ IF ok
            THEN tail_' = loc[t].next /\ UNCHANGED loc
            ELSE loc' = [loc EXCEPT ![t].tail = tail_] /\ UNCHANGED tail_
         /\ TrackCas(t, ~ok /\ tail_ = loc[t].tail)
    /\ Goto(t, "deq89")
    /\ UNCHANGED <<head_, size_, mem, pool, callvars, retvars, deq>>

\* A dequeue that takes the data of the sentinel instead.
Deq83_FromHead(t) ==
    /\ pc[t] = "deq83"
    /\ loc' = [loc EXCEPT ![t].value = mem[loc[t].head].data]
    /\ Goto(t, "deq84")
    /\ Track(t, FALSE)
    /\ UNCHANGED <<shared, callvars, retvars, deq>>

\* line 83: value = next->data;  (next == nullptr: a null dereference)
Deq83(t) ==
    /\ pc[t] = "deq83"
    /\ IF loc[t].next = nullptr
       THEN pc' = [u \in Threads |-> "crash"] /\ UNCHANGED loc
       ELSE /\ loc' = [loc EXCEPT ![t].value = mem[loc[t].next].data]
            /\ Goto(t, "deq84")
    /\ Track(t, FALSE)
    /\ UNCHANGED <<shared, callvars, retvars, deq>>

\* line 84: if (head_.compare_exchange_weak(head, next)) break;
Deq84(t) ==
    /\ pc[t] = "deq84"
    /\ \E ok \in CasWeak(head_, loc[t].head) :
         /\ IF ok
            THEN /\ head_' = loc[t].next
                 /\ deq' = Append(deq, loc[t].value)
                 /\ Goto(t, "deq92")
                 /\ UNCHANGED loc
            ELSE /\ loc' = [loc EXCEPT ![t].head = head_]
                 /\ Goto(t, "deq89")
                 /\ UNCHANGED <<head_, deq>>
         /\ TrackCas(t, ~ok /\ head_ = loc[t].head)
    /\ UNCHANGED <<tail_, size_, mem, pool, callvars, retvars>>

\* line 89: head = head_.load();  (and back to line 75)
Deq89(t) ==
    /\ pc[t] = "deq89"
    /\ LoopGuard(t)
    /\ loc' = [loc EXCEPT ![t].head = head_]
    /\ Goto(t, "deq75")
    /\ Track(t, TRUE)
    /\ UNCHANGED <<shared, callvars, retvars, deq>>

\* line 92: pool_.deallocate(head);
Deq92(t) ==
    /\ pc[t] = "deq92"
    /\ SetPool(deallocate(pool_, loc[t].head))
    /\ Goto(t, "deq93")
    /\ Track(t, FALSE)
    /\ UNCHANGED <<head_, tail_, size_, mem, loc, callvars, retvars, deq>>

\* lines 93-94: size_.fetch_sub(1); return true;
Deq93(t) ==
    /\ pc[t] = "deq93"
    /\ size_' = size_ - 1
    /\ Return(t, "deq", TRUE, loc[t].value)
    /\ UNCHANGED <<head_, tail_, mem, pool, callvars, deq>>

try_dequeue(t) ==
    \/ DeqCall(t) \/ Deq66(t) \/ Deq70(t) \/ Deq71(t) \/ Deq75(t)
    \/ Deq76(t) \/ Deq81(t) \/ Deq83(t) \/ Deq84(t) \/ Deq89(t)
    \/ Deq92(t) \/ Deq93(t)

\* -------------------------------------------------------------- MPMCQueue
NextQ == \E t \in Threads : try_enqueue(t) \/ try_dequeue(t)

InitQ == Init /\ kind = "queue"
SpecQ == InitQ /\ [][NextQ]_vars

\* ------------------------------------------------------------ MPMCChannel
\* while (timeout.count() > 0 && std::chrono::steady_clock::now() < end_time)
retry(timeout, end_time) == timeout > 0 /\ now < end_time

\* --------------------------------------------------- MPMCChannel::try_send
\* A call try_send(value, timeout).
SndCall(t) ==
    /\ kind = "channel"
    /\ nextVal <= MaxVal
    /\ \E d \in 0..(IF now < MaxTime THEN MaxTimeout ELSE 0) :
         Call(t, "snd45", "enq",
              [NoLocals EXCEPT !.value = nextVal, !.timeout = d])
    /\ nextVal' = nextVal + 1
    /\ enqBy' = [enqBy EXCEPT ![nextVal] = t]

\* line 45: auto end_time = steady_clock::now() + timeout;  then the first
\* try_send_impl (line 48).
Snd45(t) ==
    /\ pc[t] = "snd45"
    /\ loc' = [loc EXCEPT ![t].end_time = now + loc[t].timeout]
    /\ Goto(t, "snd91")
    /\ Track(t, FALSE)
    /\ UNCHANGED <<shared, callvars, retvars, deq>>

\* line 91: if (size_.load() >= capacity_) return false;  (from try_send_impl)
Snd91(t) ==
    /\ pc[t] = "snd91"
    /\ Goto(t, IF SizeGE(size_, Capacity) THEN "snd55" ELSE "snd95")
    /\ Track(t, FALSE)
    /\ UNCHANGED <<shared, loc, callvars, retvars, deq>>

\* line 95: auto new_node = pool_.allocate(value);
\* (Node(value): next = nullptr, data = value, committed = true)
Snd95(t) ==
    /\ pc[t] = "snd95"
    /\ CanAllocate
    /\ LET a == allocate_block(pool_)
       IN  /\ SetPool(a.pool)
           /\ mem' = [mem EXCEPT ![a.ptr] = Node(loc[t].value)]
           /\ loc' = [loc EXCEPT ![t].node = a.ptr]
    /\ Goto(t, "snd96")
    /\ Track(t, FALSE)
    /\ UNCHANGED <<head_, tail_, size_, callvars, retvars, deq>>

\* line 96: NodePtr tail = tail_.load();
Snd96(t) ==
    /\ pc[t] = "snd96"
    /\ loc' = [loc EXCEPT ![t].tail = tail_]
    /\ Goto(t, "snd97")
    /\ Track(t, FALSE)
    /\ UNCHANGED <<shared, callvars, retvars, deq>>

\* lines 97 and 112: next = tail->next.load();
Snd97(t) ==
    /\ pc[t] = "snd97"
    /\ loc' = [loc EXCEPT ![t].next = mem[loc[t].tail].next]
    /\ Goto(t, "snd100")
    /\ Track(t, FALSE)
    /\ UNCHANGED <<shared, callvars, retvars, deq>>

\* lines 100-101: if (tail == tail_.load()) { if (next == nullptr) ... else ... }
Snd100(t) ==
    /\ pc[t] = "snd100"
    /\ Goto(t, IF loc[t].tail = tail_
               THEN (IF loc[t].next = nullptr THEN "snd102" ELSE "snd108")
               ELSE "snd111")
    /\ Track(t, FALSE)
    /\ UNCHANGED <<shared, loc, callvars, retvars, deq>>

\* line 102: if (tail->next.compare_exchange_weak(next, new_node)) {
Snd102(t) ==
    /\ pc[t] = "snd102"
    /\ \E ok \in CasWeak(mem[loc[t].tail].next, loc[t].next) :
         /\ IF ok
            THEN /\ mem' = [mem EXCEPT ![loc[t].tail].next = loc[t].node]
                 /\ Goto(t, "snd103")
                 /\ UNCHANGED loc
            ELSE /\ loc' = [loc EXCEPT ![t].next = mem[loc[t].tail].next]
                 /\ Goto(t, "snd111")
                 /\ UNCHANGED mem
         /\ TrackCas(t, ~ok /\ mem[loc[t].tail].next = loc[t].next)
    /\ UNCHANGED <<head_, tail_, size_, pool, callvars, retvars, deq>>

\* line 103: tail_.compare_exchange_strong(tail, new_node);
Snd103(t) ==
    /\ pc[t] = "snd103"
    /\ \E ok \in CasStrong(tail_, loc[t].tail) :
         IF ok
         THEN tail_' = loc[t].node /\ UNCHANGED loc
         ELSE loc' = [loc EXCEPT ![t].tail = tail_] /\ UNCHANGED tail_
    /\ Goto(t, "snd104")
    /\ Track(t, FALSE)
    /\ UNCHANGED <<head_, size_, mem, pool, callvars, retvars, deq>>

\* lines 104-105 and 49: size_.fetch_add(1); return true;
Snd104(t) ==
    /\ pc[t] = "snd104"
    /\ size_' = size_ + 1
    /\ Return(t, "enq", TRUE, loc[t].value)
    /\ UNCHANGED <<head_, tail_, mem, pool, callvars, deq>>

\* line 108: tail_.compare_exchange_strong(tail, next);
Snd108(t) ==
    /\ pc[t] = "snd108"
    /\ \E ok \in CasStrong(tail_, loc[t].tail) :
         IF ok
         THEN tail_' = loc[t].next /\ UNCHANGED loc
         ELSE loc' = [loc EXCEPT ![t].tail = tail_] /\ UNCHANGED tail_
    /\ Goto(t, "snd111")
    /\ Track(t, FALSE)
    /\ UNCHANGED <<head_, size_, mem, pool, callvars, retvars, deq>>

\* line 111: tail = tail_.load();  (then line 112, and back to line 100)
Snd111(t) ==
    /\ pc[t] = "snd111"
    /\ LoopGuard(t)
    /\ loc' = [loc EXCEPT ![t].tail = tail_]
    /\ Goto(t, "snd97")
    /\ Track(t, TRUE)
    /\ UNCHANGED <<shared, callvars, retvars, deq>>

\* lines 52-57, after try_send_impl returned false: yield when timeout > 0;
\* while (timeout.count() > 0 && steady_clock::now() < end_time) try again;
\* return false;
Snd55(t) ==
    /\ pc[t] = "snd55"
    /\ IF retry(loc[t].timeout, loc[t].end_time)
       THEN /\ Goto(t, "snd91")
            /\ Track(t, FALSE)
            /\ UNCHANGED <<loc, retvars>>
       ELSE Return(t, "enq", FALSE, loc[t].value)
    /\ UNCHANGED <<shared, callvars, deq>>

try_send(t) ==
    \/ SndCall(t) \/ Snd45(t) \/ Snd91(t) \/ Snd95(t) \/ Snd96(t)
    \/ Snd97(t) \/ Snd100(t) \/ Snd102(t) \/ Snd103(t) \/ Snd104(t)
    \/ Snd108(t) \/ Snd111(t) \/ Snd55(t)

\* ------------------------------------------------ MPMCChannel::try_receive
\* A call try_receive(timeout).
RcvCall(t) ==
    /\ kind = "channel"
    /\ Len(deq) < MaxDeq
    /\ \E d \in 0..(IF now < MaxTime THEN MaxTimeout ELSE 0) :
         Call(t, "rcv61", "deq", [NoLocals EXCEPT !.timeout = d])
    /\ UNCHANGED <<nextVal, enqBy>>

\* line 61: auto end_time = steady_clock::now() + timeout;  then the first
\* try_receive_impl (line 64).
Rcv61(t) ==
    /\ pc[t] = "rcv61"
    /\ loc' = [loc EXCEPT ![t].end_time = now + loc[t].timeout]
    /\ Goto(t, "rcv117")
    /\ Track(t, FALSE)
    /\ UNCHANGED <<shared, callvars, retvars, deq>>

\* lines 117 and 133: head = head_.load();
Rcv117(t) ==
    /\ pc[t] = "rcv117"
    /\ loc' = [loc EXCEPT ![t].head = head_]
    /\ Goto(t, "rcv118")
    /\ Track(t, FALSE)
    /\ UNCHANGED <<shared, callvars, retvars, deq>>

\* lines 118 and 134: next = head->next.load();
Rcv118(t) ==
    /\ pc[t] = "rcv118"
    /\ loc' = [loc EXCEPT ![t].next = mem[loc[t].head].next]
    /\ Goto(t, "rcv121")
    /\ Track(t, FALSE)
    /\ UNCHANGED <<shared, callvars, retvars, deq>>

\* lines 121-124: if (head == head_.load()) { if (next == nullptr) return
\* std::nullopt; line 126 }
Rcv121(t) ==
    /\ pc[t] = "rcv121"
    /\ Goto(t, IF loc[t].head # head_ THEN "rcv133"
               ELSE IF loc[t].next = nullptr THEN "rcv71"
               ELSE "rcv126")
    /\ Track(t, FALSE)
    /\ UNCHANGED <<shared, loc, callvars, retvars, deq>>

\* line 126: T result = std::move(next->data);  What the move leaves in
\* next->data depends on T: the value itself when moving T copies it (int),
\* an empty T, here 0, when the move constructor steals (std::string,
\* std::vector, std::unique_ptr).  move_steals says which T the channel has.
Rcv126(t) ==
    /\ pc[t] = "rcv126"
    /\ loc' = [loc EXCEPT ![t].value = mem[loc[t].next].data]
    /\ mem' = [mem EXCEPT ![loc[t].next].data = IF move_steals THEN 0 ELSE @]
    /\ Goto(t, "rcv127")
    /\ Track(t, FALSE)
    /\ UNCHANGED <<head_, tail_, size_, pool, callvars, retvars, deq>>

\* line 127: if (head_.compare_exchange_weak(head, next)) {
Rcv127(t) ==
    /\ pc[t] = "rcv127"
    /\ \E ok \in CasWeak(head_, loc[t].head) :
         /\ IF ok
            THEN /\ head_' = loc[t].next
                 /\ deq' = Append(deq, loc[t].value)
                 /\ Goto(t, "rcv128")
                 /\ UNCHANGED loc
            ELSE /\ loc' = [loc EXCEPT ![t].head = head_]
                 /\ Goto(t, "rcv133")
                 /\ UNCHANGED <<head_, deq>>
         /\ TrackCas(t, ~ok /\ head_ = loc[t].head)
    /\ UNCHANGED <<tail_, size_, mem, pool, callvars, retvars>>

\* line 128: pool_.deallocate(head);
Rcv128(t) ==
    /\ pc[t] = "rcv128"
    /\ SetPool(deallocate(pool_, loc[t].head))
    /\ Goto(t, "rcv129")
    /\ Track(t, FALSE)
    /\ UNCHANGED <<head_, tail_, size_, mem, loc, callvars, retvars, deq>>

\* lines 129-130 and 65: size_.fetch_sub(1); return result;
Rcv129(t) ==
    /\ pc[t] = "rcv129"
    /\ size_' = size_ - 1
    /\ Return(t, "deq", TRUE, loc[t].value)
    /\ UNCHANGED <<head_, tail_, mem, pool, callvars, deq>>

\* line 133: head = head_.load();  (then line 134, and back to line 121)
Rcv133(t) ==
    /\ pc[t] = "rcv133"
    /\ LoopGuard(t)
    /\ loc' = [loc EXCEPT ![t].head = head_]
    /\ Goto(t, "rcv118")
    /\ Track(t, TRUE)
    /\ UNCHANGED <<shared, callvars, retvars, deq>>

\* lines 68-73, after try_receive_impl returned nullopt: yield when timeout
\* > 0; while (timeout.count() > 0 && steady_clock::now() < end_time) try
\* again; return std::nullopt;
Rcv71(t) ==
    /\ pc[t] = "rcv71"
    /\ IF retry(loc[t].timeout, loc[t].end_time)
       THEN /\ Goto(t, "rcv117")
            /\ Track(t, FALSE)
            /\ UNCHANGED <<loc, retvars>>
       ELSE Return(t, "deq", FALSE, 0)
    /\ UNCHANGED <<shared, callvars, deq>>

try_receive(t) ==
    \/ RcvCall(t) \/ Rcv61(t) \/ Rcv117(t) \/ Rcv118(t) \/ Rcv121(t)
    \/ Rcv126(t) \/ Rcv127(t) \/ Rcv128(t) \/ Rcv129(t) \/ Rcv133(t)
    \/ Rcv71(t)

\* std::chrono::steady_clock advances.  The model lets it advance while a
\* call with a deadline still to come is in progress, up to MaxTime; no call
\* is given a deadline the clock cannot reach.
Tick ==
    /\ kind = "channel"
    /\ now < MaxTime
    /\ \E t \in Threads : pc[t] # "idle" /\ now < loc[t].end_time
    /\ now' = now + 1
    /\ UNCHANGED <<kind, sched, shared, pc, loc, nextVal, enqBy, enqOK, deq,
                   ret, actors, soloT, iters, lin>>

\* ---------------------------------------------------- MPMCChannel's steps
NextCh == Tick \/ \E t \in Threads : try_send(t) \/ try_receive(t)

InitCh == Init /\ kind = "channel"
SpecCh == InitCh /\ [][NextCh]_vars

\* ------------------------------------------------- either of the two classes
Next == NextQ \/ NextCh

Spec == Init /\ [][Next]_vars

\* ===================================================== MemoryPool on its own
\* SpecMP runs a MemoryPool<T> that several threads allocate from and
\* deallocate to.  pc[t] is "alloc41" when allocate_block has returned and
\* T is being constructed in the block, "dealloc50" when ~T() has run and
\* the thread is about to lock the mutex.
MpFrame ==
    UNCHANGED <<kind, head_, tail_, size_, mem, now, nextVal, enqBy, enqOK, deq,
                ret, actors, soloT, iters, lin, thread_count, psvars, wsvars,
                thrvars, histvars, futures, rejected, move_steals, covars>>

\* allocate(args), line 40: void* ptr = allocate_block()
MpAlloc40(t) ==
    /\ kind = "pool" /\ pc[t] = "idle"
    /\ CanAllocate
    /\ LET r == allocate_block(pool_)
       IN  /\ SetPool(r.pool)
           /\ loc' = [loc EXCEPT ![t].node = r.ptr]
           /\ live' = live \cup {r.ptr}
    /\ Goto(t, "alloc41")
    /\ MpFrame

\* Line 41: return new(ptr) T(args...)
MpAlloc41(t) ==
    /\ pc[t] = "alloc41"
    /\ Goto(t, "idle")
    /\ loc' = [loc EXCEPT ![t] = NoLocals]
    /\ UNCHANGED <<pool, live>>
    /\ MpFrame

\* deallocate(ptr), lines 45-48, for a pointer allocate has returned and
\* that has not been deallocated since: ptr->~T()
MpDealloc45(t, ptr) ==
    /\ kind = "pool" /\ pc[t] = "idle"
    /\ ptr \in live
    /\ \A u \in Threads : pc[u] = "alloc41" => loc[u].node # ptr
    /\ live' = live \ {ptr}
    /\ loc' = [loc EXCEPT ![t].node = ptr]
    /\ Goto(t, "dealloc50")
    /\ UNCHANGED pool
    /\ MpFrame

\* Lines 50-52: under the mutex, block->next = free_list_; free_list_ = block
MpDealloc50(t) ==
    /\ pc[t] = "dealloc50"
    /\ SetPool(deallocate(pool_, loc[t].node))
    /\ Goto(t, "idle")
    /\ loc' = [loc EXCEPT ![t] = NoLocals]
    /\ UNCHANGED live
    /\ MpFrame

\* MemoryPool(): free_list_(nullptr), no chunk.
InitMP ==
    /\ kind = "pool"
    /\ move_steals = FALSE
    /\ NoCoroutine
    /\ head_ = nullptr
    /\ tail_ = nullptr
    /\ size_ = 0
    /\ mem = <<>>
    /\ free_list_ = nullptr
    /\ blk_next = [b \in Blocks |-> nullptr]
    /\ chunks_ = 0
    /\ pc = [t \in Threads |-> "idle"]
    /\ loc = [t \in Threads |-> NoLocals]
    /\ now = 0
    /\ nextVal = 0
    /\ enqBy = <<>>
    /\ enqOK = {}
    /\ deq = <<>>
    /\ ret = <<>>
    /\ actors = {}
    /\ soloT = 0
    /\ iters = 0
    /\ lin = {}
    /\ NoScheduler

NextMP ==
    \E t \in Threads :
       \/ MpAlloc40(t)
       \/ MpAlloc41(t)
       \/ \E ptr \in Blocks : MpDealloc45(t, ptr)
       \/ MpDealloc50(t)

SpecMP == InitMP /\ [][NextMP]_vars

\* ===================================================== the schedulers
\* scheduler/priority_scheduler.hpp and scheduler/work_stealing_scheduler.hpp.
\* Each critical section, each access to an atomic and each call on a
\* condition variable is one step.  The worker threads of a scheduler are
\* Workers (the first thread_count of them), the threads calling into it are
\* Callers; wpc and cpc name the line a thread is about to execute.  SpecPS
\* runs a PriorityScheduler, SpecWS a WorkStealingScheduler.
Workers == 1..NumWorkers
Callers == 1..NumCallers
Priorities == 1..MaxPrio
TaskIds == 0..(MaxTasks - 1)
NoTask == [task_id |-> -1, priority |-> 0, schedule_time |-> 0]

\* No MPMCQueue or MPMCChannel exists in a run of a scheduler.
NoLockFree ==
    /\ head_ = nullptr
    /\ tail_ = nullptr
    /\ size_ = 0
    /\ mem = <<>>
    /\ free_list_ = nullptr
    /\ blk_next = <<>>
    /\ chunks_ = 0
    /\ pc = <<>>
    /\ loc = <<>>
    /\ nextVal = 0
    /\ enqBy = <<>>
    /\ enqOK = {}
    /\ deq = <<>>
    /\ ret = <<>>
    /\ actors = {}
    /\ soloT = 0
    /\ iters = 0
    /\ lin = {}

lockfree == <<shared, pc, loc, nextVal, enqBy, enqOK, deq, ret, actors, soloT,
              iters, lin>>

\* ------------------------------------------------------ PriorityScheduler
\* An order that puts the later of two tasks of equal priority on top.
TaskLess_later_first(a, b) ==
    IF a.priority # b.priority
    THEN a.priority < b.priority
    ELSE a.schedule_time < b.schedule_time

\* Task::operator<
TaskLess(a, b) ==
    IF a.priority # b.priority
    THEN a.priority < b.priority
    ELSE a.schedule_time > b.schedule_time

\* A heap with the least task on top.
Tops_least(h) == {t \in h : \A u \in h : ~TaskLess(u, t)}

\* std::priority_queue<Task>::top(): a task that is less than no other.
\* Which one of several equivalent tasks is at the top depends on the
\* history of the heap, so top() is any of Tops(h).
Tops(h) == {t \in h : \A u \in h : ~TaskLess(t, u)}

\* A test that takes every task for due.
Due_always(t) == t.schedule_time <= MaxTime

\* tasks_.top().schedule_time <= std::chrono::steady_clock::now()
Due(t) == t.schedule_time <= now

\* What a worker tests before it pops: !tasks_.empty() && top is due.
TopDue == tasks_ # {} /\ \E t \in Tops(tasks_) : Due(t)

\* The predicate of condition_.wait in worker_loop.
WaitPred == stop_ \/ TopDue

\* cancel's first loop: pop every task, keep those with another id in temp.
RECURSIVE cancel_drain(_, _, _, _)
cancel_drain(h, temp, found, task_id) ==
    IF h = {} THEN [found |-> found, temp |-> temp]
    ELSE LET task == CHOOSE t \in Tops(h) : TRUE
         IN  IF task.task_id # task_id
             THEN cancel_drain(h \ {task}, Append(temp, task), found, task_id)
             ELSE cancel_drain(h \ {task}, temp, TRUE, task_id)

\* A cancel that does not push the other tasks back.
cancel_drop(h, task_id) ==
    [found |-> \E t \in h : t.task_id = task_id, tasks |-> {}]

\* A cancel that reports the task found and leaves it in the heap.
cancel_keep(h, task_id) ==
    [found |-> \E t \in h : t.task_id = task_id, tasks |-> h]

\* cancel(task_id) on the heap h: the result and the heap after the second
\* loop has pushed temp back.
cancel(h, task_id) ==
    LET d == cancel_drain(h, <<>>, FALSE, task_id)
    IN  [found |-> d.found, tasks |-> {d.temp[i] : i \in 1..Len(d.temp)}]

Waiting == {w \in Workers : wpc[w] = "wait"}

\* condition_.notify_one(): one of the waiting workers, if there is one,
\* leaves wait and goes for the mutex.
notify_one ==
    IF Waiting = {} THEN UNCHANGED wpc
    ELSE \E w \in Waiting : wpc' = [wpc EXCEPT ![w] = "w115"]

\* condition_.notify_all()
notify_all == wpc' = [w \in Workers |-> IF w \in Waiting THEN "w115" ELSE wpc[w]]

\* The scheduler lives until its destructor is entered; the destructor runs
\* when no other call is in progress.
Alive == \A c \in Callers : cpc[c] \in {"idle", "sch73", "sch77", "sch80"}
AllIdle == \A c \in Callers : cpc[c] = "idle"
Issued == next_task_id_ + Cardinality({c \in Callers : cpc[c] = "sch73"})

PsFrame == UNCHANGED <<kind, lockfree, wsvars, thread_count, extvars>>

\* schedule(func, priority): time = now; schedule_after(func, delay,
\* priority): time = now + delay; schedule_at(func, time, priority).
\* Lines 69-72: the Task is built from the arguments.
PsCall(c, time, priority) ==
    /\ cpc[c] = "idle" /\ Alive
    /\ Issued < MaxTasks
    /\ cpc' = [cpc EXCEPT ![c] = "sch73"]
    /\ cloc' = [cloc EXCEPT ![c] = [task_id |-> -1, priority |-> priority,
                                    schedule_time |-> time]]
    /\ UNCHANGED <<psvars, wpc, wtask, histvars, now>>
    /\ PsFrame

\* Line 73: .task_id = next_task_id_++
Sch73(c) ==
    /\ cpc[c] = "sch73"
    /\ cloc' = [cloc EXCEPT ![c].task_id = next_task_id_]
    /\ next_task_id_' = next_task_id_ + 1
    /\ cpc' = [cpc EXCEPT ![c] = "sch77"]
    /\ UNCHANGED <<tasks_, mutex_, stop_, cancelled, lastCancel, wpc, wtask,
                   histvars, now>>
    /\ PsFrame

\* Lines 77-79: lock, tasks_.push(task), unlock.
Sch77(c) ==
    /\ cpc[c] = "sch77"
    /\ mutex_ = 0
    /\ tasks_' = tasks_ \cup {cloc[c]}
    /\ submitted' = submitted \cup {cloc[c].task_id}
    /\ cpc' = [cpc EXCEPT ![c] = "sch80"]
    /\ UNCHANGED <<mutex_, stop_, next_task_id_, cancelled, lastCancel, wpc,
                   wtask, cloc, ran, thrown, now>>
    /\ PsFrame

\* Lines 80-81: condition_.notify_one(); return task.task_id.
Sch80(c) ==
    /\ cpc[c] = "sch80"
    /\ notify_one
    /\ cpc' = [cpc EXCEPT ![c] = "idle"]
    /\ cloc' = [cloc EXCEPT ![c] = NoTask]
    /\ UNCHANGED <<psvars, wtask, histvars, now>>
    /\ PsFrame

schedule_at(c) == Sch73(c) \/ Sch77(c) \/ Sch80(c)

\* cancel(task_id): the whole body runs under mutex_.
PsCancel(c, task_id) ==
    /\ cpc[c] = "idle" /\ Alive
    /\ lastCancel.n < MaxCancels
    /\ mutex_ = 0
    /\ LET r == cancel(tasks_, task_id)
       IN  /\ tasks_' = r.tasks
           /\ lastCancel' = [n |-> lastCancel.n + 1, task_id |-> task_id,
                             found |-> r.found]
           /\ cancelled' = IF r.found THEN cancelled \cup {task_id}
                           ELSE cancelled
    /\ UNCHANGED <<mutex_, stop_, next_task_id_, thrvars, histvars, now>>
    /\ PsFrame

\* ~PriorityScheduler(), lines 40-42: lock, stop_ = true, unlock.
Dtor40(c) ==
    /\ AllIdle
    /\ mutex_ = 0
    /\ stop_' = TRUE
    /\ cpc' = [cpc EXCEPT ![c] = "dtor43"]
    /\ UNCHANGED <<tasks_, mutex_, next_task_id_, cancelled, lastCancel, wpc,
                   wtask, cloc, histvars, now>>
    /\ PsFrame

\* Line 43: condition_.notify_all()
Dtor43(c) ==
    /\ cpc[c] = "dtor43"
    /\ notify_all
    /\ cpc' = [cpc EXCEPT ![c] = "dtor44"]
    /\ UNCHANGED <<psvars, wtask, cloc, histvars, now>>
    /\ PsFrame

\* Lines 44-46: join every worker; the destructor returns when all of them
\* have left worker_loop.
Dtor44(c) ==
    /\ cpc[c] = "dtor44"
    /\ \A w \in Workers : wpc[w] \in {"none", "exited"}
    /\ cpc' = [cpc EXCEPT ![c] = "destroyed"]
    /\ UNCHANGED <<psvars, wpc, wtask, cloc, histvars, now>>
    /\ PsFrame

PsDestructor(c) == Dtor40(c) \/ Dtor43(c) \/ Dtor44(c)

\* worker_loop, lines 115-120: lock mutex_ and evaluate the predicate of
\* condition_.wait; if it is false, release mutex_ and block.  A worker that
\* was woken comes back here: it locks mutex_ and evaluates the predicate
\* again.
W115(w) ==
    /\ wpc[w] = "w115"
    /\ mutex_ = 0
    /\ IF WaitPred
       THEN mutex_' = w /\ wpc' = [wpc EXCEPT ![w] = "w122"]
       ELSE UNCHANGED mutex_ /\ wpc' = [wpc EXCEPT ![w] = "wait"]
    /\ UNCHANGED <<tasks_, stop_, next_task_id_, cancelled, lastCancel, wtask,
                   cpc, cloc, histvars, now>>
    /\ PsFrame

\* Lines 122-130, with mutex_ held: return if stop_ is set and the heap is
\* empty; pop the top if it is due and unlock; otherwise go round the loop
\* (the lock is released at the end of the iteration).
W122(w) ==
    /\ wpc[w] = "w122"
    /\ mutex_' = 0
    /\ IF stop_ /\ tasks_ = {}
       THEN /\ wpc' = [wpc EXCEPT ![w] = "exited"]
            /\ UNCHANGED <<tasks_, wtask, ran>>
       ELSE IF TopDue
       THEN \E task \in Tops(tasks_) :
              /\ tasks_' = tasks_ \ {task}
              /\ wtask' = [wtask EXCEPT ![w] = task]
              /\ ran' = Append(ran, [task |-> task, w |-> w,
                                     rest |-> tasks_ \ {task}])
              /\ wpc' = [wpc EXCEPT ![w] = "w133"]
       ELSE /\ wpc' = [wpc EXCEPT ![w] = "w115"]
            /\ UNCHANGED <<tasks_, wtask, ran>>
    /\ UNCHANGED <<stop_, next_task_id_, cancelled, lastCancel, cpc, cloc,
                   submitted, thrown, now>>
    /\ PsFrame

\* A worker_loop without the catch: what task.func() throws ends the thread.
W133_uncaught(w) ==
    /\ wpc[w] = "w133"
    /\ \E throws \in BOOLEAN :
         /\ thrown' = IF throws THEN thrown \cup {wtask[w].task_id} ELSE thrown
         /\ wpc' = [wpc EXCEPT ![w] = IF throws THEN "dead" ELSE "w115"]
    /\ wtask' = [wtask EXCEPT ![w] = NoTask]
    /\ UNCHANGED <<psvars, cpc, cloc, submitted, ran, now>>
    /\ PsFrame

\* Lines 132-136: task.func() returns or throws; catch (...) swallows what
\* it throws and the loop goes on.
W133(w) ==
    /\ wpc[w] = "w133"
    /\ \E throws \in BOOLEAN :
         thrown' = IF throws THEN thrown \cup {wtask[w].task_id} ELSE thrown
    /\ wpc' = [wpc EXCEPT ![w] = "w115"]
    /\ wtask' = [wtask EXCEPT ![w] = NoTask]
    /\ UNCHANGED <<psvars, cpc, cloc, submitted, ran, now>>
    /\ PsFrame

\* condition_variable::wait may return without a notification.
SpuriousWakeup(w) ==
    /\ wpc[w] = "wait"
    /\ wpc' = [wpc EXCEPT ![w] = "w115"]
    /\ UNCHANGED <<psvars, wtask, cpc, cloc, histvars, now>>
    /\ PsFrame

worker_loop(w) == W115(w) \/ W122(w) \/ W133(w)

\* std::chrono::steady_clock advances, up to MaxTime.
PsTick ==
    /\ kind = "priority"
    /\ now < MaxTime
    /\ now' = now + 1
    /\ UNCHANGED <<kind, lockfree, sched>>

\* PriorityScheduler(thread_count): stop_(false), next_task_id_(0), and
\* thread_count workers entering worker_loop.
InitPS ==
    /\ kind = "priority"
    /\ NoLockFree
    /\ now = 0
    /\ thread_count \in 0..NumWorkers
    /\ tasks_ = {}
    /\ mutex_ = 0
    /\ stop_ = FALSE
    /\ next_task_id_ = 0
    /\ queues_ = <<>>
    /\ running_ = FALSE
    /\ thread_index_ = 0
    /\ tl_index = <<>>
    /\ wpc = [w \in Workers |-> IF w <= thread_count THEN "w115" ELSE "none"]
    /\ wtask = [w \in Workers |-> NoTask]
    /\ cpc = [c \in Callers |-> "idle"]
    /\ cloc = [c \in Callers |-> NoTask]
    /\ submitted = {}
    /\ ran = <<>>
    /\ thrown = {}
    /\ cancelled = {}
    /\ lastCancel = [n |-> 0, task_id |-> -1, found |-> FALSE]
    /\ live = {}
    /\ futures = <<>>
    /\ rejected = {}
    /\ move_steals = FALSE
    /\ NoCoroutine

PsClient(c) ==
    \/ \E time \in 0..MaxTime, priority \in Priorities : PsCall(c, time, priority)
    \/ schedule_at(c)
    \/ \E task_id \in 0..MaxTasks : PsCancel(c, task_id)
    \/ PsDestructor(c)

NextPS ==
    \/ PsTick
    \/ \E c \in Callers : PsClient(c)
    \/ \E w \in Workers : worker_loop(w) \/ SpuriousWakeup(w)

SpecPS == InitPS /\ [][NextPS]_vars

\* A PriorityScheduler under a fair scheduler: the clock advances, a worker
\* that can take a step takes one, and a call in progress completes.  No
\* caller is obliged to call, and no wait is obliged to return without a
\* notification.
FairPS ==
    /\ WF_vars(PsTick)
    /\ \A w \in Workers : SF_vars(worker_loop(w))
    /\ \A c \in Callers : WF_vars(schedule_at(c) \/ Dtor43(c) \/ Dtor44(c))

FairSpecPS == SpecPS /\ FairPS

\* -------------------------------------------------- WorkStealingScheduler
\* The threads that can call submit / submit_batch: the callers, and the
\* workers from inside a task.  Worker w runs worker_loop(w - 1) and is
\* thread NumCallers + w.
WsThreads == 1..(NumCallers + NumWorkers)
ThreadOf(w) == NumCallers + w
QueueIds == 0..(thread_count - 1)
\* The locals of submit / submit_batch; sent is history: the pushes the
\* call has made so far.
NoCall == [todo |-> <<>>, index |-> 0, per |-> 0, cur |-> 0, i |-> 0, j |-> 0,
           for_this |-> 0, sent |-> <<>>]

\* The tasks handed to submit / submit_batch so far are numbered in the
\* order of the calls.
InCall == UNION {{cloc[th].todo[k] : k \in 1..Len(cloc[th].todo)} : th \in WsThreads}
Created == submitted \cup InCall
FreshTasks(count) == [k \in 1..count |-> Cardinality(Created) + k - 1]

\* A thread may call when it is a caller, or a worker inside a task.
MayCall(th) ==
    /\ cpc[th] = "idle"
    /\ th > NumCallers => wpc[th - NumCallers] \in {"w144", "w153"}

WsFrame == UNCHANGED <<kind, lockfree, psvars, thread_count, now, extvars>>

\* WorkStealingQueue::push
push(q, task) == Append(q, task)

\* A try_pop that takes the task at the front, as a thief does.
try_pop_front(q) ==
    IF q = <<>> THEN [ok |-> FALSE, task |-> -1, q |-> q]
    ELSE [ok |-> TRUE, task |-> Head(q), q |-> Tail(q)]

\* WorkStealingQueue::try_pop: the task at the back, if there is one.
try_pop(q) ==
    IF q = <<>> THEN [ok |-> FALSE, task |-> -1, q |-> q]
    ELSE [ok |-> TRUE, task |-> q[Len(q)], q |-> SubSeq(q, 1, Len(q) - 1)]

\* A try_steal that hands out the front task and leaves it in the deque.
try_steal_copy(q) ==
    IF q = <<>> THEN [ok |-> FALSE, task |-> -1, q |-> q]
    ELSE [ok |-> TRUE, task |-> Head(q), q |-> q]

\* WorkStealingQueue::try_steal: the task at the front, if there is one.
try_steal(q) ==
    IF q = <<>> THEN [ok |-> FALSE, task |-> -1, q |-> q]
    ELSE [ok |-> TRUE, task |-> Head(q), q |-> Tail(q)]

\* get_worker_index(): the thread_local index is initialised from
\* thread_index_++ by the thread's first call; the result is index % size.
get_worker_index(th) ==
    IF tl_index[th] = -1
    THEN [index |-> thread_index_ % thread_count,
          tl |-> [tl_index EXCEPT ![th] = thread_index_],
          ti |-> thread_index_ + 1]
    ELSE [index |-> tl_index[th] % thread_count, tl |-> tl_index,
          ti |-> thread_index_]

\* submit(task) is called.
SubCall(th) ==
    /\ MayCall(th) /\ running_
    /\ Cardinality(Created) < MaxTasks
    /\ cpc' = [cpc EXCEPT ![th] = "sub84"]
    /\ cloc' = [cloc EXCEPT ![th] = [NoCall EXCEPT !.todo = FreshTasks(1)]]
    /\ UNCHANGED <<wsvars, wpc, wtask, histvars>>
    /\ WsFrame

\* index % queues_.size() and count / queues_.size() with no queue: an
\* integer division by zero.  The hardware traps, or the quotient is some
\* number and queues_[index] is an access outside the empty vector; either
\* way the process ends.
DivisionByZero ==
    /\ thread_count = 0
    /\ wpc' = [w \in Workers |-> "terminated"]
    /\ cpc' = [th \in WsThreads |-> "terminated"]
    /\ UNCHANGED <<wsvars, wtask, cloc, histvars>>
    /\ WsFrame

\* Line 84: size_t index = get_worker_index()
Sub84(th) ==
    /\ cpc[th] = "sub84"
    /\ \/ DivisionByZero
       \/ /\ thread_count > 0
          /\ LET g == get_worker_index(th)
             IN  /\ cloc' = [cloc EXCEPT ![th].index = g.index]
                 /\ tl_index' = g.tl
                 /\ thread_index_' = g.ti
          /\ cpc' = [cpc EXCEPT ![th] = "sub85"]
          /\ UNCHANGED <<queues_, running_, wpc, wtask, histvars>>
          /\ WsFrame

\* Lines 85-86: queues_[index].push(task); cv_.notify_one().  A worker in
\* wait_for returns at a notification or after 100 ms, so the notification
\* only makes it return earlier.
Sub85(th) ==
    /\ cpc[th] = "sub85"
    /\ queues_' = [queues_ EXCEPT ![cloc[th].index] = push(@, cloc[th].todo[1])]
    /\ submitted' = submitted \cup {cloc[th].todo[1]}
    /\ cpc' = [cpc EXCEPT ![th] = "idle"]
    /\ cloc' = [cloc EXCEPT ![th] = NoCall]
    /\ UNCHANGED <<running_, thread_index_, tl_index, wpc, wtask, ran, thrown>>
    /\ WsFrame

submit(th) == Sub84(th) \/ Sub85(th)

\* submit_batch(begin, end) is called with count tasks.
BatCall(th, count) ==
    /\ MayCall(th) /\ running_
    /\ Cardinality(Created) + count <= MaxTasks
    /\ cpc' = [cpc EXCEPT ![th] = "bat101"]
    /\ cloc' = [cloc EXCEPT ![th] = [NoCall EXCEPT !.todo = FreshTasks(count)]]
    /\ UNCHANGED <<wsvars, wpc, wtask, histvars>>
    /\ WsFrame

\* Lines 101-106: index, count, tasks_per_queue, current_queue, it.
Bat101(th) ==
    /\ cpc[th] = "bat101"
    /\ \/ DivisionByZero
       \/ /\ thread_count > 0
          /\ LET g == get_worker_index(th)
             IN  /\ cloc' = [cloc EXCEPT
                                ![th].index = g.index,
                                ![th].per = Len(cloc[th].todo) \div thread_count,
                                ![th].cur = g.index,
                                ![th].i = 0]
                 /\ tl_index' = g.tl
                 /\ thread_index_' = g.ti
          /\ cpc' = [cpc EXCEPT ![th] = "bat108"]
          /\ UNCHANGED <<queues_, running_, wpc, wtask, histvars>>
          /\ WsFrame

\* An outer loop that gives the last queue tasks_per_queue tasks as well.
Bat108_even(th) ==
    /\ cpc[th] = "bat108"
    /\ IF cloc[th].i < thread_count /\ cloc[th].todo # <<>>
       THEN /\ cloc' = [cloc EXCEPT ![th].for_this = cloc[th].per,
                                    ![th].j = 0]
            /\ cpc' = [cpc EXCEPT ![th] = "bat112"]
       ELSE /\ cpc' = [cpc EXCEPT ![th] = "bat120"]
            /\ UNCHANGED cloc
    /\ UNCHANGED <<wsvars, wpc, wtask, histvars>>
    /\ WsFrame

\* Lines 108-110: the outer loop's test and tasks_for_this_queue.
Bat108(th) ==
    /\ cpc[th] = "bat108"
    /\ IF cloc[th].i < thread_count /\ cloc[th].todo # <<>>
       THEN /\ cloc' = [cloc EXCEPT
                          ![th].for_this = IF cloc[th].i = thread_count - 1
                                           THEN Len(cloc[th].todo)
                                           ELSE cloc[th].per,
                          ![th].j = 0]
            /\ cpc' = [cpc EXCEPT ![th] = "bat112"]
       ELSE /\ cpc' = [cpc EXCEPT ![th] = "bat120"]
            /\ UNCHANGED cloc
    /\ UNCHANGED <<wsvars, wpc, wtask, histvars>>
    /\ WsFrame

\* Lines 112-117: the inner loop pushes one task per iteration; after it,
\* current_queue = (current_queue + 1) % queues_.size() and ++i.
Bat112(th) ==
    /\ cpc[th] = "bat112"
    /\ IF cloc[th].j < cloc[th].for_this /\ cloc[th].todo # <<>>
       THEN /\ queues_' = [queues_ EXCEPT
                             ![cloc[th].cur] = push(@, Head(cloc[th].todo))]
            /\ submitted' = submitted \cup {Head(cloc[th].todo)}
            /\ cloc' = [cloc EXCEPT
                          ![th].todo = Tail(@), ![th].j = @ + 1,
                          ![th].sent = Append(@, [task |-> Head(cloc[th].todo),
                                                  queue |-> cloc[th].cur])]
            /\ UNCHANGED cpc
       ELSE /\ cloc' = [cloc EXCEPT
                          ![th].cur = (@ + 1) % thread_count, ![th].i = @ + 1]
            /\ cpc' = [cpc EXCEPT ![th] = "bat108"]
            /\ UNCHANGED <<queues_, submitted>>
    /\ UNCHANGED <<running_, thread_index_, tl_index, wpc, wtask, ran, thrown>>
    /\ WsFrame

\* Line 120: cv_.notify_all(); return.
Bat120(th) ==
    /\ cpc[th] = "bat120"
    /\ cpc' = [cpc EXCEPT ![th] = "idle"]
    /\ cloc' = [cloc EXCEPT ![th] = NoCall]
    /\ UNCHANGED <<wsvars, wpc, wtask, histvars>>
    /\ WsFrame

submit_batch(th) == Bat101(th) \/ Bat108(th) \/ Bat112(th) \/ Bat120(th)

\* ~WorkStealingScheduler(), lines 72-73: running_ = false; notify_all.
\* It runs when no caller is in a call.
WsDtor72(th) ==
    /\ th <= NumCallers
    /\ running_
    /\ \A c \in Callers : cpc[c] = "idle"
    /\ running_' = FALSE
    /\ cpc' = [cpc EXCEPT ![th] = "dtor75"]
    /\ UNCHANGED <<queues_, thread_index_, tl_index, wpc, wtask, cloc, histvars>>
    /\ WsFrame

\* Lines 75-79: join every worker.
WsDtor75(th) ==
    /\ cpc[th] = "dtor75"
    /\ \A w \in Workers : wpc[w] \in {"none", "exited"}
    /\ cpc' = [cpc EXCEPT ![th] = "destroyed"]
    /\ UNCHANGED <<wsvars, wpc, wtask, cloc, histvars>>
    /\ WsFrame

WsDestructor(th) == WsDtor72(th) \/ WsDtor75(th)

\* worker_loop(index), line 139: while (running_)
Ws139(w) ==
    /\ wpc[w] = "w139"
    /\ wpc' = [wpc EXCEPT ![w] = IF running_ THEN "w143" ELSE "exited"]
    /\ UNCHANGED <<wsvars, wtask, cpc, cloc, histvars>>
    /\ WsFrame

\* The worker has taken a task and is about to call it at line l.
Takes(w, r, l, stolen) ==
    /\ wtask' = [wtask EXCEPT ![w] = r.task]
    /\ ran' = Append(ran, [task |-> r.task, w |-> w, stolen |-> stolen])
    /\ wpc' = [wpc EXCEPT ![w] = l]

\* Line 143: queues_[index].try_pop(task)
Ws143(w) ==
    /\ wpc[w] = "w143"
    /\ LET r == try_pop(queues_[w - 1])
       IN  IF r.ok
           THEN /\ queues_' = [queues_ EXCEPT ![w - 1] = r.q]
                /\ Takes(w, r, "w144", FALSE)
           ELSE /\ wpc' = [wpc EXCEPT ![w] = "w149"]
                /\ UNCHANGED <<queues_, wtask, ran>>
    /\ UNCHANGED <<running_, thread_index_, tl_index, cpc, cloc, submitted,
                   thrown>>
    /\ WsFrame

\* Lines 149-152: a random victim_index; if it is another queue,
\* queues_[victim_index].try_steal(task).
Ws149(w, victim_index) ==
    /\ wpc[w] = "w149"
    /\ victim_index \in QueueIds
    /\ LET r == try_steal(queues_[victim_index])
       IN  IF victim_index # w - 1 /\ r.ok
           THEN /\ queues_' = [queues_ EXCEPT ![victim_index] = r.q]
                /\ Takes(w, r, "w153", TRUE)
           ELSE /\ wpc' = [wpc EXCEPT ![w] = "w158"]
                /\ UNCHANGED <<queues_, wtask, ran>>
    /\ UNCHANGED <<running_, thread_index_, tl_index, cpc, cloc, submitted,
                   thrown>>
    /\ WsFrame

\* Lines 158-160: cv_.wait_for returns, at the latest after 100 ms, whatever
\* the predicate says, and the loop starts again.
Ws158(w) ==
    /\ wpc[w] = "w158"
    /\ wpc' = [wpc EXCEPT ![w] = "w139"]
    /\ UNCHANGED <<wsvars, wtask, cpc, cloc, histvars>>
    /\ WsFrame

\* Lines 144 and 153: task() returns, and the loop continues, or it throws:
\* nothing in worker_loop catches, the exception leaves the thread's
\* function and std::terminate ends the process.
WsRun(w) ==
    /\ wpc[w] \in {"w144", "w153"}
    /\ cpc[ThreadOf(w)] = "idle"
    /\ \E throws \in BOOLEAN :
         IF throws
         THEN /\ thrown' = thrown \cup {wtask[w]}
              /\ wpc' = [v \in Workers |-> "terminated"]
              /\ cpc' = [th \in WsThreads |-> "terminated"]
              /\ UNCHANGED wtask
         ELSE /\ wpc' = [wpc EXCEPT ![w] = "w139"]
              /\ wtask' = [wtask EXCEPT ![w] = -1]
              /\ UNCHANGED <<thrown, cpc>>
    /\ UNCHANGED <<wsvars, cloc, submitted, ran>>
    /\ WsFrame

ws_worker_loop(w) ==
    \/ Ws139(w)
    \/ Ws143(w)
    \/ \E victim_index \in QueueIds : Ws149(w, victim_index)
    \/ Ws158(w)
    \/ WsRun(w)

\* WorkStealingScheduler(thread_count): a queue per worker, running_(true),
\* thread_index_ = 0, and thread_count threads entering worker_loop(i).
InitWS ==
    /\ kind = "stealing"
    /\ NoLockFree
    /\ now = 0
    /\ thread_count \in 0..NumWorkers
    /\ tasks_ = {}
    /\ mutex_ = 0
    /\ stop_ = FALSE
    /\ next_task_id_ = 0
    /\ cancelled = {}
    /\ lastCancel = <<>>
    /\ live = {}
    /\ futures = <<>>
    /\ rejected = {}
    /\ move_steals = FALSE
    /\ NoCoroutine
    /\ queues_ = [i \in QueueIds |-> <<>>]
    /\ running_ = TRUE
    /\ thread_index_ = 0
    /\ tl_index = [th \in WsThreads |-> -1]
    /\ wpc = [w \in Workers |-> IF w <= thread_count THEN "w139" ELSE "none"]
    /\ wtask = [w \in Workers |-> -1]
    /\ cpc = [th \in WsThreads |-> "idle"]
    /\ cloc = [th \in WsThreads |-> NoCall]
    /\ submitted = {}
    /\ ran = <<>>
    /\ thrown = {}

WsCaller(th) ==
    \/ SubCall(th)
    \/ submit(th)
    \/ \E count \in 1..MaxTasks : BatCall(th, count)
    \/ submit_batch(th)
    \/ WsDestructor(th)

NextWS ==
    \/ \E th \in WsThreads : WsCaller(th)
    \/ \E w \in Workers : ws_worker_loop(w)

SpecWS == InitWS /\ [][NextWS]_vars

\* A WorkStealingScheduler under a fair scheduler: a worker that can take a
\* step takes one, every victim is chosen again and again, and a call in
\* progress completes.  No thread is obliged to call.
FairWS ==
    /\ \A w \in Workers : WF_vars(ws_worker_loop(w))
    /\ \A w \in Workers : \A v \in 0..(NumWorkers - 1) : SF_vars(Ws149(w, v))
    /\ \A th \in WsThreads : WF_vars(submit(th) \/ submit_batch(th) \/ WsDtor75(th))

FairSpecWS == SpecWS /\ FairWS

\* ====================================== TaskPool and ThreadPoolExecutor
\* coroutine/task_pool.hpp and executor/thread_pool_executor.hpp.  Both keep
\* their pending tasks behind one mutex and hand out a std::future per
\* task; every critical section is one step.  The tasks are numbered in
\* the order in which their packaged_task is made, and futures[id] is the
\* shared state of task id: "pending", "value", "exception", or "none" when
\* submit threw and no future was returned.  A worker about to lock the
\* mutex is at "lock"; a task running on a worker may call submit itself.
PoolFrame ==
    UNCHANGED <<kind, lockfree, wsvars, thread_count, mutex_, next_task_id_,
                cancelled, lastCancel, live, move_steals, covars>>

InPool == kind \in {"taskpool", "executor"}
Sleeping == {w \in Workers : wpc[w] = "wait"}

\* condition_.notify_one(): one of the waiting workers, if there is one,
\* leaves wait and goes for the mutex.
pool_notify_one ==
    IF Sleeping = {} THEN UNCHANGED wpc
    ELSE \E w \in Sleeping : wpc' = [wpc EXCEPT ![w] = "lock"]

\* condition_.notify_all()
pool_notify_all ==
    wpc' = [w \in Workers |-> IF w \in Sleeping THEN "lock" ELSE wpc[w]]

\* condition_variable::wait may return without a notification.
PoolSpuriousWakeup(w) ==
    /\ InPool /\ wpc[w] = "wait"
    /\ wpc' = [wpc EXCEPT ![w] = "lock"]
    /\ UNCHANGED <<tasks_, stop_, wtask, cpc, cloc, histvars, futures,
                   rejected, now>>
    /\ PoolFrame

\* A thread may call submit when it is a caller and the destructor has not
\* been entered, or a worker inside a task.
PoolMayCall(th) ==
    /\ cpc[th] = "idle"
    /\ th > NumCallers => wpc[th - NumCallers] \in {"w37", "w145"}

\* The packaged_task and its future are made (TaskPool::submit lines 58-62,
\* ThreadPoolExecutor lines 58-62, 78-82, 98-104).
MakeTask(th, priority, time, label) ==
    /\ PoolMayCall(th)
    /\ Len(futures) < MaxTasks
    /\ futures' = Append(futures, "pending")
    /\ cloc' = [cloc EXCEPT ![th] = [task_id |-> Len(futures) + 1,
                                     priority |-> priority,
                                     schedule_time |-> time]]
    /\ cpc' = [cpc EXCEPT ![th] = label]
    /\ UNCHANGED <<tasks_, stop_, wpc, wtask, histvars, rejected, now>>
    /\ PoolFrame

\* The exception of submit leaves the call: the packaged_task and the
\* future die with it.
Reject(th) ==
    /\ rejected' = rejected \cup {cloc[th].task_id}
    /\ futures' = [futures EXCEPT ![cloc[th].task_id] = "none"]
    /\ cpc' = [cpc EXCEPT ![th] = "idle"]
    /\ cloc' = [cloc EXCEPT ![th] = NoTask]

\* ~TaskPool(), lines 44-47, and ~ThreadPoolExecutor(), lines 46-49: lock,
\* stop_ = true, unlock.
PoolDtorStop(c) ==
    /\ InPool /\ c \in Callers /\ cpc[c] = "idle"
    /\ stop_' = TRUE
    /\ cpc' = [cpc EXCEPT ![c] = "dtor_notify"]
    /\ UNCHANGED <<tasks_, wpc, wtask, cloc, histvars, futures, rejected, now>>
    /\ PoolFrame

\* condition_.notify_all()
PoolDtorNotify(c) ==
    /\ InPool /\ cpc[c] = "dtor_notify"
    /\ pool_notify_all
    /\ cpc' = [cpc EXCEPT ![c] = "dtor_join"]
    /\ UNCHANGED <<tasks_, stop_, wtask, cloc, histvars, futures, rejected, now>>
    /\ PoolFrame

\* worker.join() for every worker
PoolDtorJoin(c) ==
    /\ InPool /\ cpc[c] = "dtor_join"
    /\ \A w \in Workers : wpc[w] \in {"none", "exited"}
    /\ cpc' = [cpc EXCEPT ![c] = "destroyed"]
    /\ UNCHANGED <<tasks_, stop_, wpc, wtask, cloc, histvars, futures,
                   rejected, now>>
    /\ PoolFrame

PoolDestructor(c) == PoolDtorStop(c) \/ PoolDtorNotify(c) \/ PoolDtorJoin(c)

\* A worker that dies of what the callable threw: the future stays pending.
RunPackaged_uncaught(w) ==
    /\ cpc[ThreadOf(w)] = "idle"
    /\ \E throws \in BOOLEAN :
         /\ futures' = IF throws THEN futures
                       ELSE [futures EXCEPT ![wtask[w].task_id] = "value"]
         /\ thrown' = IF throws THEN thrown \cup {wtask[w].task_id} ELSE thrown
         /\ wpc' = [wpc EXCEPT ![w] = IF throws THEN "dead" ELSE "lock"]
    /\ wtask' = [wtask EXCEPT ![w] = NoTask]
    /\ UNCHANGED <<tasks_, stop_, cpc, cloc, submitted, ran, rejected, now>>
    /\ PoolFrame

\* The packaged_task runs the callable once and stores what it returned or
\* threw in the shared state; nothing leaves (*task)().
RunPackaged(w) ==
    /\ cpc[ThreadOf(w)] = "idle"
    /\ \E throws \in BOOLEAN :
         /\ futures' = [futures EXCEPT ![wtask[w].task_id] =
                           IF throws THEN "exception" ELSE "value"]
         /\ thrown' = IF throws THEN thrown \cup {wtask[w].task_id} ELSE thrown
    /\ wpc' = [wpc EXCEPT ![w] = "lock"]
    /\ wtask' = [wtask EXCEPT ![w] = NoTask]
    /\ UNCHANGED <<tasks_, stop_, cpc, cloc, submitted, ran, rejected, now>>
    /\ PoolFrame

\* ----------------------------------------------------------------- TaskPool
\* tasks_ is a std::queue: the ids of the pending tasks, the oldest first.

\* A pop that takes the youngest task.
pop_back(q) == [task |-> q[Len(q)], q |-> SubSeq(q, 1, Len(q) - 1)]

\* Lines 34-35: task = std::move(tasks_.front()); tasks_.pop()
pop_front(q) == [task |-> Head(q), q |-> Tail(q)]

\* submit(f, args...) is called.
TpCall(th) == kind = "taskpool" /\ MakeTask(th, 0, 0, "sub64")

\* Lines 64-69: under the mutex, throw if stop_ is set, else enqueue.
Tp64(th) ==
    /\ kind = "taskpool" /\ cpc[th] = "sub64"
    /\ IF stop_
       THEN /\ Reject(th)
            /\ UNCHANGED <<tasks_, submitted>>
       ELSE /\ tasks_' = Append(tasks_, cloc[th].task_id)
            /\ submitted' = submitted \cup {cloc[th].task_id}
            /\ cpc' = [cpc EXCEPT ![th] = "sub70"]
            /\ UNCHANGED <<cloc, futures, rejected>>
    /\ UNCHANGED <<stop_, wpc, wtask, ran, thrown, now>>
    /\ PoolFrame

\* Lines 70-71: condition_.notify_one(); return result.
Tp70(th) ==
    /\ kind = "taskpool" /\ cpc[th] = "sub70"
    /\ pool_notify_one
    /\ cpc' = [cpc EXCEPT ![th] = "idle"]
    /\ cloc' = [cloc EXCEPT ![th] = NoTask]
    /\ UNCHANGED <<tasks_, stop_, wtask, histvars, futures, rejected, now>>
    /\ PoolFrame

TpSubmit(th) == TpCall(th) \/ Tp64(th) \/ Tp70(th)

\* The worker lambda, lines 25-36: lock and evaluate the predicate of
\* condition_.wait; block if it is false; return if stop_ is set and the
\* queue is empty; else take the front task and unlock.
Tp25(w) ==
    /\ kind = "taskpool" /\ wpc[w] = "lock"
    /\ IF ~(stop_ \/ tasks_ # <<>>)
       THEN /\ wpc' = [wpc EXCEPT ![w] = "wait"]
            /\ UNCHANGED <<tasks_, wtask, ran>>
       ELSE IF stop_ /\ tasks_ = <<>>
       THEN /\ wpc' = [wpc EXCEPT ![w] = "exited"]
            /\ UNCHANGED <<tasks_, wtask, ran>>
       ELSE LET r == pop_front(tasks_)
            IN  /\ tasks_' = r.q
                /\ wtask' = [wtask EXCEPT ![w] = [NoTask EXCEPT !.task_id = r.task]]
                /\ ran' = Append(ran, [task |-> r.task, w |-> w, rest |-> r.q])
                /\ wpc' = [wpc EXCEPT ![w] = "w37"]
    /\ UNCHANGED <<stop_, cpc, cloc, submitted, thrown, futures, rejected, now>>
    /\ PoolFrame

\* Line 37: task()
Tp37(w) == kind = "taskpool" /\ wpc[w] = "w37" /\ RunPackaged(w)

TpWorker(w) == Tp25(w) \/ Tp37(w)

InitPool ==
    /\ NoLockFree
    /\ now = 0
    /\ thread_count \in 0..NumWorkers
    /\ mutex_ = 0
    /\ stop_ = FALSE
    /\ next_task_id_ = 0
    /\ queues_ = <<>>
    /\ running_ = FALSE
    /\ thread_index_ = 0
    /\ tl_index = <<>>
    /\ wpc = [w \in Workers |-> IF w <= thread_count THEN "lock" ELSE "none"]
    /\ wtask = [w \in Workers |-> NoTask]
    /\ cpc = [th \in WsThreads |-> "idle"]
    /\ cloc = [th \in WsThreads |-> NoTask]
    /\ submitted = {}
    /\ ran = <<>>
    /\ thrown = {}
    /\ cancelled = {}
    /\ lastCancel = <<>>
    /\ live = {}
    /\ futures = <<>>
    /\ rejected = {}
    /\ move_steals = FALSE
    /\ NoCoroutine

\* TaskPool(thread_count): stop_(false), an empty queue, thread_count
\* workers.
InitTP == kind = "taskpool" /\ tasks_ = <<>> /\ InitPool

NextTP ==
    \/ \E th \in WsThreads : TpSubmit(th)
    \/ \E w \in Workers : TpWorker(w)

\* --------------------------------------------------- ThreadPoolExecutor
\* tasks_ is a std::priority_queue<Task>: the set of the pending tasks.
\* task_pool_->allocate builds the Task in a block of the MemoryPool; the
\* block is never given back, and the queue holds the Task.

\* submit(f): priority 0, schedule_time now; submit_with_priority(p, f):
\* schedule_time now; schedule_after(delay, f): priority 0, now + delay.
ExCall(th, priority, delay) ==
    /\ kind = "executor"
    /\ now + delay <= MaxTime
    /\ priority = 0 \/ delay = 0
    /\ MakeTask(th, priority, now + delay, "sub65")

\* A submit without the test of the queue size.
Ex65_unchecked(th) ==
    /\ kind = "executor" /\ cpc[th] = "sub65"
    /\ tasks_' = tasks_ \cup {cloc[th]}
    /\ submitted' = submitted \cup {cloc[th].task_id}
    /\ cpc' = [cpc EXCEPT ![th] = "sub72"]
    /\ UNCHANGED <<cloc, futures, rejected>>
    /\ UNCHANGED <<stop_, wpc, wtask, ran, thrown, now>>
    /\ PoolFrame

\* Lines 65-71 (85-91, 106-112): under the mutex, throw if the queue holds
\* max_queue_size_ tasks, else push the Task.
Ex65(th) ==
    /\ kind = "executor" /\ cpc[th] = "sub65"
    /\ IF Cardinality(tasks_) >= MaxQueueSize
       THEN /\ Reject(th)
            /\ UNCHANGED <<tasks_, submitted>>
       ELSE /\ tasks_' = tasks_ \cup {cloc[th]}
            /\ submitted' = submitted \cup {cloc[th].task_id}
            /\ cpc' = [cpc EXCEPT ![th] = "sub72"]
            /\ UNCHANGED <<cloc, futures, rejected>>
    /\ UNCHANGED <<stop_, wpc, wtask, ran, thrown, now>>
    /\ PoolFrame

\* Lines 72-73 (92-93, 113-114): condition_.notify_one(); return result.
Ex72(th) ==
    /\ kind = "executor" /\ cpc[th] = "sub72"
    /\ pool_notify_one
    /\ cpc' = [cpc EXCEPT ![th] = "idle"]
    /\ cloc' = [cloc EXCEPT ![th] = NoTask]
    /\ UNCHANGED <<tasks_, stop_, wtask, histvars, futures, rejected, now>>
    /\ PoolFrame

ExSubmit(th) ==
    \/ \E priority \in 0..MaxPrio, delay \in 0..MaxTime : ExCall(th, priority, delay)
    \/ Ex65(th)
    \/ Ex72(th)

\* worker_loop, lines 129-142: lock and evaluate the predicate of
\* condition_.wait; block if it is false; return if stop_ is set and the
\* queue is empty; pop the top if it is due and unlock; otherwise the lock
\* is released at the end of the iteration and the loop goes round.
Ex129(w) ==
    /\ kind = "executor" /\ wpc[w] = "lock"
    /\ IF ~(stop_ \/ tasks_ # {})
       THEN /\ wpc' = [wpc EXCEPT ![w] = "wait"]
            /\ UNCHANGED <<tasks_, wtask, ran>>
       ELSE IF stop_ /\ tasks_ = {}
       THEN /\ wpc' = [wpc EXCEPT ![w] = "exited"]
            /\ UNCHANGED <<tasks_, wtask, ran>>
       ELSE IF TopDue
       THEN \E task \in Tops(tasks_) :
              /\ tasks_' = tasks_ \ {task}
              /\ wtask' = [wtask EXCEPT ![w] = task]
              /\ ran' = Append(ran, [task |-> task.task_id, w |-> w,
                                     rest |-> tasks_ \ {task}])
              /\ wpc' = [wpc EXCEPT ![w] = "w145"]
       ELSE UNCHANGED <<wpc, tasks_, wtask, ran>>
    /\ UNCHANGED <<stop_, cpc, cloc, submitted, thrown, futures, rejected, now>>
    /\ PoolFrame

\* Lines 144-148: try { task.func(); } catch (...) {}
Ex145(w) == kind = "executor" /\ wpc[w] = "w145" /\ RunPackaged(w)

ExWorker(w) == Ex129(w) \/ Ex145(w)

\* std::chrono::steady_clock advances, up to MaxTime.
ExTick ==
    /\ kind = "executor"
    /\ now < MaxTime
    /\ now' = now + 1
    /\ UNCHANGED <<kind, lockfree, sched>>

\* ThreadPoolExecutor(thread_count, max_queue_size): stop_(false), an empty
\* queue, thread_count workers.
InitEx == kind = "executor" /\ tasks_ = {} /\ InitPool

NextEx ==
    \/ ExTick
    \/ \E th \in WsThreads : ExSubmit(th)
    \/ \E w \in Workers : ExWorker(w)

\* A TaskPool or a ThreadPoolExecutor, with its destructor.
InitPools == InitTP \/ InitEx

NextPools ==
    \/ NextTP
    \/ NextEx
    \/ \E c \in Callers : PoolDestructor(c)
    \/ \E w \in Workers : PoolSpuriousWakeup(w)

SpecPools == InitPools /\ [][NextPools]_vars

\* The pools under a fair scheduler: the clock advances, a worker that can
\* take a step takes one, and a call in progress completes.  No thread is
\* obliged to call, and no wait is obliged to return without a notification.
FairPools ==
    /\ WF_vars(ExTick)
    /\ \A w \in Workers : WF_vars(TpWorker(w) \/ ExWorker(w))
    /\ \A th \in WsThreads : WF_vars(Tp64(th) \/ Tp70(th) \/ Ex65(th) \/ Ex72(th))
    /\ \A c \in Callers : WF_vars(PoolDtorNotify(c) \/ PoolDtorJoin(c))

FairSpecPools == SpecPools /\ FairPools

\* ================================================== coroutine::Scheduler
\* coroutine/scheduler.hpp.  SpecCo runs a Scheduler with thread_count
\* workers and a thread that calls submit, cancel and the destructor.  The
\* pc of a thread names the line of scheduler.hpp it is about to execute.
\*
\* The tasks are Task<T> objects the caller made before the run; each is
\* submitted at most once and cancelled after its submit.  initial_suspend
\* is suspend_never, so a task's coroutine has run to its first suspension
\* point when the Task exists: frame[task] is "suspended".  final_suspend
\* is suspend_never too, so a coroutine that runs to its end destroys its
\* frame: frame[task] is "destroyed" and handle_ dangles.  An exception in
\* the body is stored by promise_type::unhandled_exception and the
\* coroutine ends; resume() itself does not throw, so the catch at lines
\* 226-228 is never entered.
\*
\* state_ is a plain enum that workers and callers read and write without
\* a lock; every read and every write of it is a step of its own.
\* task_queue_ is taken for a FIFO whose operations are atomic.
READY == "READY"
RUNNING == "RUNNING"
SUSPENDED == "SUSPENDED"
COMPLETED == "COMPLETED"
CANCELLED == "CANCELLED"
FAILED == "FAILED"
CoroutineState == {READY, RUNNING, SUSPENDED, COMPLETED, CANCELLED, FAILED}

CoFrame ==
    UNCHANGED <<kind, lockfree, now, thread_count, tasks_, mutex_, stop_,
                next_task_id_, lastCancel, queues_, thread_index_, tl_index,
                thrown, live, futures, rejected, move_steals>>

\* task_queue_.enqueue(task).  MPMCQueue declares try_enqueue only; the
\* call is taken for a push at the tail that succeeds.
enqueue(q, task) == Append(q, task)

\* Task<T>::is_done(): !handle_ || handle_.done().  handle_ is never null;
\* done() of a suspended coroutine is false, and done() of a destroyed
\* frame reads freed memory: either answer.
is_done(task) == IF frame[task] = "suspended" THEN {FALSE} ELSE BOOLEAN

\* submit(task, priority) is called; line 173: task.set_priority(priority).
\* Nothing reads priority_.
CoSubmit(c, task) ==
    /\ cpc[c] = "idle"
    /\ task \notin submitted
    /\ cpc' = [cpc EXCEPT ![c] = "co174"]
    /\ cloc' = [cloc EXCEPT ![c] = task]
    /\ UNCHANGED <<running_, wpc, wtask, submitted, ran, cancelled, covars>>
    /\ CoFrame

\* Line 174: task.set_state(CoroutineState::READY)
Co174(c) ==
    /\ cpc[c] = "co174"
    /\ state_' = [state_ EXCEPT ![cloc[c]] = READY]
    /\ cpc' = [cpc EXCEPT ![c] = "co175"]
    /\ UNCHANGED <<running_, wpc, wtask, cloc, submitted, ran, cancelled,
                   cancelled_, frame, task_queue_>>
    /\ CoFrame

\* Line 175: task_queue_.enqueue(&task), and submit returns.
Co175(c) ==
    /\ cpc[c] = "co175"
    /\ task_queue_' = enqueue(task_queue_, cloc[c])
    /\ submitted' = submitted \cup {cloc[c]}
    /\ cpc' = [cpc EXCEPT ![c] = "idle"]
    /\ cloc' = [cloc EXCEPT ![c] = -1]
    /\ UNCHANGED <<running_, wpc, wtask, ran, cancelled, state_, cancelled_,
                   frame>>
    /\ CoFrame

\* cancel(task) is called.
CoCancel(c, task) ==
    /\ cpc[c] = "idle"
    /\ task \in submitted
    /\ task \notin cancelled
    /\ cpc' = [cpc EXCEPT ![c] = "co190"]
    /\ cloc' = [cloc EXCEPT ![c] = task]
    /\ UNCHANGED <<running_, wpc, wtask, submitted, ran, cancelled, covars>>
    /\ CoFrame

\* Line 190: task.cancel(), which is
\* cancellation_token_.request_cancellation(): cancelled_ = true.
Co190(c) ==
    /\ cpc[c] = "co190"
    /\ cancelled_' = [cancelled_ EXCEPT ![cloc[c]] = TRUE]
    /\ cpc' = [cpc EXCEPT ![c] = "co191"]
    /\ UNCHANGED <<running_, wpc, wtask, cloc, submitted, ran, cancelled,
                   state_, frame, task_queue_>>
    /\ CoFrame

\* Line 191: task.set_state(CoroutineState::CANCELLED), and cancel returns.
Co191(c) ==
    /\ cpc[c] = "co191"
    /\ state_' = [state_ EXCEPT ![cloc[c]] = CANCELLED]
    /\ cancelled' = cancelled \cup {cloc[c]}
    /\ cpc' = [cpc EXCEPT ![c] = "idle"]
    /\ cloc' = [cloc EXCEPT ![c] = -1]
    /\ UNCHANGED <<running_, wpc, wtask, submitted, ran, cancelled_, frame,
                   task_queue_>>
    /\ CoFrame

\* ~Scheduler(), stop(), line 203: running_ = false
Co203(c) ==
    /\ cpc[c] = "idle"
    /\ running_' = FALSE
    /\ cpc' = [cpc EXCEPT ![c] = "co204"]
    /\ UNCHANGED <<wpc, wtask, cloc, submitted, ran, cancelled, covars>>
    /\ CoFrame

\* Lines 204-208: join every worker.
Co204(c) ==
    /\ cpc[c] = "co204"
    /\ \A w \in Workers : wpc[w] \in {"exited", "none"}
    /\ cpc' = [cpc EXCEPT ![c] = "destroyed"]
    /\ UNCHANGED <<running_, wpc, wtask, cloc, submitted, ran, cancelled,
                   covars>>
    /\ CoFrame

\* worker_loop, line 212: while (running_)
Co212(w) ==
    /\ wpc[w] = "co212"
    /\ wpc' = [wpc EXCEPT ![w] = IF running_ THEN "co214" ELSE "exited"]
    /\ UNCHANGED <<running_, wtask, cpc, cloc, submitted, ran, cancelled,
                   covars>>
    /\ CoFrame

\* Lines 213-214 and 230-232: task_queue_.try_dequeue(task); with an empty
\* queue the worker yields and goes round the loop.
Co214(w) ==
    /\ wpc[w] = "co214"
    /\ IF task_queue_ # <<>>
       THEN /\ wtask' = [wtask EXCEPT ![w] = Head(task_queue_)]
            /\ task_queue_' = Tail(task_queue_)
            /\ wpc' = [wpc EXCEPT ![w] = "co215"]
       ELSE /\ wpc' = [wpc EXCEPT ![w] = "co212"]
            /\ UNCHANGED <<wtask, task_queue_>>
    /\ UNCHANGED <<running_, cpc, cloc, submitted, ran, cancelled, state_,
                   cancelled_, frame>>
    /\ CoFrame

\* Line 215: if (task->state() == CoroutineState::READY); a task in any
\* other state is dropped.
Co215(w) ==
    /\ wpc[w] = "co215"
    /\ IF state_[wtask[w]] = READY
       THEN /\ wpc' = [wpc EXCEPT ![w] = "co216"]
            /\ UNCHANGED wtask
       ELSE /\ wpc' = [wpc EXCEPT ![w] = "co212"]
            /\ wtask' = [wtask EXCEPT ![w] = -1]
    /\ UNCHANGED <<running_, cpc, cloc, submitted, ran, cancelled, covars>>
    /\ CoFrame

\* Line 216: task->set_state(CoroutineState::RUNNING)
Co216(w) ==
    /\ wpc[w] = "co216"
    /\ state_' = [state_ EXCEPT ![wtask[w]] = RUNNING]
    /\ wpc' = [wpc EXCEPT ![w] = "co218"]
    /\ UNCHANGED <<running_, wtask, cpc, cloc, submitted, ran, cancelled,
                   cancelled_, frame, task_queue_>>
    /\ CoFrame

\* Line 218: task->resume() is called: handle_.resume() of a coroutine
\* that is not done.  The history records whether cancel(task) had returned.
Co218(w) ==
    /\ wpc[w] = "co218"
    /\ ran' = Append(ran, [task |-> wtask[w], w |-> w,
                           cancelled |-> wtask[w] \in cancelled])
    /\ wpc' = [wpc EXCEPT ![w] = "resume"]
    /\ UNCHANGED <<running_, wtask, cpc, cloc, submitted, cancelled, covars>>
    /\ CoFrame

\* The coroutine runs until it suspends again or ends (by co_return or by
\* an exception), and resume() returns.  Nothing in the body reads the
\* cancellation token.
CoResume(w) ==
    /\ wpc[w] = "resume"
    /\ \E ends \in BOOLEAN :
         frame' = [frame EXCEPT
                     ![wtask[w]] = IF ends THEN "destroyed" ELSE "suspended"]
    /\ wpc' = [wpc EXCEPT ![w] = "co219"]
    /\ UNCHANGED <<running_, wtask, cpc, cloc, submitted, ran, cancelled,
                   state_, cancelled_, task_queue_>>
    /\ CoFrame

\* Lines 219-222: if (task->is_done()) set_state(COMPLETED); else
\* set_state(SUSPENDED).
Co219(w) ==
    /\ wpc[w] = "co219"
    /\ \E done \in is_done(wtask[w]) :
         IF done
         THEN /\ state_' = [state_ EXCEPT ![wtask[w]] = COMPLETED]
              /\ wpc' = [wpc EXCEPT ![w] = "co212"]
              /\ wtask' = [wtask EXCEPT ![w] = -1]
         ELSE /\ state_' = [state_ EXCEPT ![wtask[w]] = SUSPENDED]
              /\ wpc' = [wpc EXCEPT ![w] = "co224"]
              /\ UNCHANGED wtask
    /\ UNCHANGED <<running_, cpc, cloc, submitted, ran, cancelled, cancelled_,
                   frame, task_queue_>>
    /\ CoFrame

\* Line 224: task_queue_.enqueue(task), the re-enqueue of a suspended task.
Co224(w) ==
    /\ wpc[w] = "co224"
    /\ task_queue_' = enqueue(task_queue_, wtask[w])
    /\ wpc' = [wpc EXCEPT ![w] = "co212"]
    /\ wtask' = [wtask EXCEPT ![w] = -1]
    /\ UNCHANGED <<running_, cpc, cloc, submitted, ran, cancelled, state_,
                   cancelled_, frame>>
    /\ CoFrame

\* Scheduler(thread_count, policy): start() sets running_ and starts
\* thread_count workers in worker_loop.  TaskBase: state_{READY},
\* cancelled_{false}.
InitCo ==
    /\ kind = "coroutine"
    /\ NoLockFree
    /\ now = 0
    /\ thread_count \in 0..NumWorkers
    /\ tasks_ = {}
    /\ mutex_ = 0
    /\ stop_ = FALSE
    /\ next_task_id_ = 0
    /\ queues_ = <<>>
    /\ running_ = TRUE
    /\ thread_index_ = 0
    /\ tl_index = <<>>
    /\ wpc = [w \in Workers |-> IF w <= thread_count THEN "co212" ELSE "none"]
    /\ wtask = [w \in Workers |-> -1]
    /\ cpc = [c \in Callers |-> "idle"]
    /\ cloc = [c \in Callers |-> -1]
    /\ submitted = {}
    /\ ran = <<>>
    /\ thrown = {}
    /\ cancelled = {}
    /\ lastCancel = <<>>
    /\ live = {}
    /\ futures = <<>>
    /\ rejected = {}
    /\ move_steals = FALSE
    /\ state_ = [task \in TaskIds |-> READY]
    /\ cancelled_ = [task \in TaskIds |-> FALSE]
    /\ frame = [task \in TaskIds |-> "suspended"]
    /\ task_queue_ = <<>>

CoClient(c) ==
    \/ \E task \in TaskIds : CoSubmit(c, task) \/ CoCancel(c, task)
    \/ Co174(c) \/ Co175(c)
    \/ Co190(c) \/ Co191(c)
    \/ Co203(c) \/ Co204(c)

co_worker_loop(w) ==
    \/ Co212(w) \/ Co214(w) \/ Co215(w) \/ Co216(w)
    \/ Co218(w) \/ CoResume(w)
    \/ Co219(w) \/ Co224(w)

NextCo ==
    \/ \E c \in Callers : CoClient(c)
    \/ \E w \in Workers : co_worker_loop(w)

SpecCo == InitCo /\ [][NextCo]_vars

\* ------------------------------------------------------ what the claims use
Range(s) == {s[i] : i \in 1..Len(s)}

\* The data of the nodes reachable from n by next links (at most one pass
\* over the blocks, should the links form a cycle).
RECURSIVE ChainFrom(_, _)
ChainFrom(n, fuel) ==
    IF n = nullptr \/ fuel = 0 THEN <<>>
    ELSE <<mem[n].data>> \o ChainFrom(mem[n].next, fuel - 1)

\* The values stored behind the sentinel head_ points to.
Chain == ChainFrom(mem[head_].next, Cardinality(Blocks))

\* ----------------------------------------------------------------- claims

\* C1: no enqueued value is returned by more than one successful
\* try_dequeue, in any interleaving of try_enqueue and try_dequeue calls.
C1_NoDuplicateDequeue ==
    \A i, j \in 1..Len(deq) :
        (i # j /\ deq[i] \in Values) => deq[i] # deq[j]

\* C2: whenever no call is in progress, the values whose try_enqueue
\* returned true are exactly the values dequeued so far plus the values in
\* the nodes behind the sentinel; once the queue is drained, as many
\* dequeues as enqueues have succeeded.
C2_NoValueLost ==
    Quiescent =>
        /\ enqOK = Range(deq) \cup Range(Chain)
        /\ Chain = <<>> => Cardinality(enqOK) = Len(deq)

\* C3: the history of successful try_enqueue and try_dequeue calls agrees
\* with a sequential history of an atomic FIFO queue in which each call
\* takes effect between its call and its return: some configuration of the
\* atomic queue is still possible.
C3_Linearizable == lin # {}

\* C4: the values one producer enqueued are dequeued in the order it
\* enqueued them: the dequeues of one producer's values never step back, and
\* when a value is dequeued every value the same producer had enqueued
\* before it has been dequeued already.
C4_PerProducerOrder ==
    /\ \A i, j \in 1..Len(deq) :
           (i < j /\ deq[i] \in Values /\ deq[j] \in Values
                  /\ enqBy[deq[i]] = enqBy[deq[j]]) => deq[i] <= deq[j]
    /\ \A j \in 1..Len(deq) : \A a \in enqOK :
           (deq[j] \in Values /\ a < deq[j] /\ enqBy[a] = enqBy[deq[j]])
               => \E i \in 1..(j - 1) : deq[i] = a

\* C5: whenever no call is in progress, size() is the number of values
\* enqueued and not yet dequeued, and 0 <= size() <= capacity.
C5_SizeAtRest ==
    Quiescent =>
        /\ size_ = Cardinality(enqOK) - Len(deq)
        /\ 0 <= size_
        /\ size_ <= Capacity

\* The positions of a thread inside each operation.
EnqPcs == {"enq35", "enq39", "enq40", "enq41", "enq43", "enq47", "enq48",
           "enq50", "enq54", "enq57", "enq60", "enq61"}
DeqPcs == {"deq66", "deq70", "deq71", "deq75", "deq76", "deq81", "deq83",
           "deq84", "deq89", "deq92", "deq93"}
SndPcs == {"snd45", "snd91", "snd95", "snd96", "snd97", "snd100", "snd102",
           "snd103", "snd104", "snd108", "snd111", "snd55"}
RcvPcs == {"rcv61", "rcv117", "rcv118", "rcv121", "rcv126", "rcv127",
           "rcv128", "rcv129", "rcv133", "rcv71"}

\* t takes a step (the null dereference, a step of line 83, ends every
\* thread) / t's call returns with this step.
Steps(t) == pc'[t] # pc[t] /\ (pc'[t] = "crash" => pc[t] = "deq83")
Returns(t) == pc[t] # "idle" /\ pc'[t] = "idle"
\* No other thread has called into the object, or none has taken a step
\* since t's call began.
Alone(t) == actors = {t} \/ soloT = t

\* C6: at the size check with size() == capacity, try_enqueue (and
\* try_send_impl) returns false and leaves head_, tail_, size_, the nodes
\* and the pool as they were; at size() == capacity - 1 the check lets the
\* call through, and a call with no concurrent caller then returns true
\* with size() == capacity, so that the next one fails.
C6_FullRejects ==
    [][\A t \in Threads :
        /\ (pc[t] \in {"enq35", "snd91"} /\ Steps(t) /\ size_ = Capacity)
              => /\ UNCHANGED shared
                 /\ pc'[t] = (IF pc[t] = "enq35" THEN "idle" ELSE "snd55")
                 /\ pc[t] = "enq35" =>
                        ret'[t] = [op |-> "enq", ok |-> FALSE,
                                   val |-> loc[t].value]
        /\ (pc[t] \in {"enq35", "snd91"} /\ Steps(t) /\ size_ = Capacity - 1)
              => pc'[t] \in {"enq39", "snd95"}
        /\ (pc[t] \in EnqPcs \cup SndPcs /\ Returns(t) /\ Alone(t)
              /\ size_ = Capacity - 1)
              => /\ ret'[t] = [op |-> "enq", ok |-> TRUE,
                               val |-> loc[t].value]
                 /\ size_' = Capacity
    ]_vars

C6_Witness ==
    /\ Quiescent
    /\ size_ = Capacity
    /\ Cardinality(enqOK) = Capacity
    /\ \E t \in Threads : ret[t].op = "enq" /\ ~ret[t].ok /\ actors = {t}

\* What a step of a failing call may do: change nothing shared; return only
\* failure, and from the retry loop exactly when the timeout is zero or the
\* deadline has passed.
FailsOrRetries(t) ==
    /\ UNCHANGED shared
    /\ pc'[t] # "crash"
    /\ Returns(t) => ~ret'[t].ok
    /\ pc[t] \in {"snd55", "rcv71"} =>
           (Returns(t) <=> (loc[t].timeout = 0 \/ now >= loc[t].end_time))
    /\ (pc[t] \in {"snd55", "rcv71"} /\ ~Returns(t)) =>
           pc'[t] \in {"snd91", "rcv117"}

\* Where a consumer is after its CAS on head_ has taken a value.
Taken == {"deq92", "deq93", "rcv128", "rcv129"}

\* C7: while no node is behind the sentinel, every step of an undisturbed
\* try_dequeue / try_receive, and while size() >= capacity every step of an
\* undisturbed try_send, leaves head_, tail_, size_ and the nodes unchanged
\* and returns nothing but failure; with a zero timeout the call returns
\* after its one attempt, with a positive timeout it tries again until the
\* deadline has passed and then returns failure.
C7_EmptyAndFullFail ==
    [][\A t \in Threads : (soloT = t /\ Steps(t)) =>
        /\ (pc[t] \in (DeqPcs \cup RcvPcs) \ Taken
              /\ mem[head_].next = nullptr)
              => FailsOrRetries(t)
        /\ (pc[t] \in SndPcs /\ SizeGE(size_, Capacity))
              => FailsOrRetries(t)
    ]_vars

C7_Witness ==
    \E t \in Threads :
        /\ pc[t] = "rcv71"
        /\ soloT = t
        /\ loc[t].timeout > 0
        /\ now >= loc[t].end_time
        /\ mem[head_].next = nullptr

\* C8: a call that runs without interference returns after a bounded number
\* of iterations of its retry loop: while a call is undisturbed it has not
\* crashed and has gone round its loop fewer than MaxIters times.
C8_UndisturbedCallReturns ==
    soloT # 0 => (pc[soloT] # "crash" /\ iters < MaxIters)

\* C9: on an MPMCQueue only thread t has called into, a try_dequeue that
\* follows a successful try_enqueue(v) (v is the one value enqueued and not
\* yet dequeued) returns true with v and leaves the queue empty with
\* size() == 0.
C9_EnqueueThenDequeue ==
    [][\A t \in Threads : \A v \in Values :
        (/\ actors = {t}
         /\ pc[t] \in DeqPcs
         /\ Steps(t)
         /\ enqOK \ Range(IF pc[t] \in {"deq92", "deq93"}
                          THEN SubSeq(deq, 1, Len(deq) - 1) ELSE deq) = {v})
        => /\ pc'[t] # "crash"
           /\ Returns(t) =>
                 /\ ret'[t] = [op |-> "deq", ok |-> TRUE, val |-> v]
                 /\ size_' = 0
                 /\ head_' = tail_'
                 /\ mem'[head_'].next = nullptr
    ]_vars

C9_Witness ==
    \E t \in Threads : \E v \in Values :
        /\ kind = "queue"
        /\ actors = {t}
        /\ Quiescent
        /\ ret[t] = [op |-> "deq", ok |-> TRUE, val |-> v]
        /\ enqOK = {v}
        /\ size_ = 0

Started == {ran[i].task.task_id : i \in 1..Len(ran)}
Pending == {t.task_id : t \in tasks_}

\* C11: a task for which cancel(task_id) returned true is never started by a
\* worker, whatever the sequence of schedule and cancel calls.
C11_CancelledNeverRuns == cancelled \cap Started = {}

\* A task was cancelled while pending, another one ran, and every worker
\* has since looked at the heap and found nothing to do.
C11_Witness ==
    /\ kind = "priority"
    /\ cancelled # {} /\ Started # {}
    /\ tasks_ = {}
    /\ \A w \in Workers : wpc[w] \in {"none", "wait"}

\* A worker takes a task: it goes from line 122 to the call of task.func().
Pops(w) == wpc[w] = "w122" /\ wpc'[w] = "w133"

\* C12: no worker starts a task while steady_clock::now() is before the
\* task's schedule_time, shutdown included.
C12_NotBeforeScheduleTime ==
    [][\A w \in Workers : Pops(w) => wtask'[w].schedule_time <= now]_vars

\* During shutdown a worker has started a task scheduled for MaxTime, which
\* was pending when an earlier task was started.
C12_Witness ==
    /\ stop_
    /\ \E w \in Workers : wpc[w] = "w133" /\ wtask[w].schedule_time = MaxTime
    /\ lastCancel.n = 0 /\ Len(ran) = 2
    /\ ran[1].task.schedule_time = 0
    /\ ran[2].task \in ran[1].rest

\* A call of cancel returns.
Cancels == lastCancel'.n # lastCancel.n

\* C14: cancel(task_id) returns true exactly when a task with that id is
\* pending; it then removes that task and no other, and the tasks left keep
\* their priority and schedule_time (hence their order under operator<).
\* For an id that was cancelled before, was never issued or belongs to a
\* task a worker has taken, it returns false and changes nothing.
C14_CancelRemovesExactlyThatTask ==
    [][Cancels =>
         LET id == lastCancel'.task_id
         IN  /\ lastCancel'.found <=> id \in Pending
             /\ tasks_' = {t \in tasks_ : t.task_id # id}
             /\ id \in cancelled \cup Started \/ id >= next_task_id_
                  => ~lastCancel'.found /\ tasks_' = tasks_
             /\ UNCHANGED <<stop_, next_task_id_, thrvars, histvars>>]_vars

\* The second cancel of an id has returned false and left the pending task
\* alone, after the first had returned true.
C14_Witness ==
    /\ lastCancel.n = 2 /\ ~lastCancel.found
    /\ lastCancel.task_id \in cancelled
    /\ tasks_ # {}

\* C15: when a worker pops a task, no pending task has a strictly higher
\* priority, and none has the same priority and an earlier schedule_time.
C15_PopsTheTop ==
    [][\A w \in Workers : Pops(w) =>
         \A u \in tasks_ :
            /\ u.priority <= wtask'[w].priority
            /\ u.priority = wtask'[w].priority
                 => u.schedule_time >= wtask'[w].schedule_time]_vars

\* A task was popped ahead of a pending one of the same priority and a
\* later schedule_time.
C15_Witness ==
    \E i \in 1..Len(ran) : \E u \in ran[i].rest :
          /\ u.priority = ran[i].task.priority
          /\ u.schedule_time > ran[i].task.schedule_time

\* Every task started so far was due from the start (schedule_time 0) and
\* no two of them have the same priority.
ImmediateDistinct ==
    \A i, j \in 1..Len(ran) :
       /\ ran[i].task.schedule_time = 0
       /\ i # j => ran[i].task.priority # ran[j].task.priority

\* C16 as stated: on a scheduler with one worker, immediately due tasks of
\* distinct priorities submitted one after another run in descending
\* priority, whatever the order of submission.
C16_DescendingWhateverTheOrder ==
    thread_count = 1 /\ ImmediateDistinct =>
       \A i, j \in 1..Len(ran) :
          i < j => ran[i].task.priority > ran[j].task.priority

\* C16: of two tasks of distinct priorities that are both in the heap when
\* a worker pops one of them, the one of higher priority is started first;
\* a task pushed after the worker has popped an earlier one runs after it,
\* whatever its priority.
C16_DescendingAmongPending ==
    \A i, j \in 1..Len(ran) :
       i < j /\ ran[j].task \in ran[i].rest
          => ran[i].task.priority >= ran[j].task.priority

\* The one worker has started two immediately due tasks of distinct
\* priorities that were pending together.
C16_Witness ==
    /\ kind = "priority" /\ thread_count = 1
    /\ Len(ran) = 2 /\ ImmediateDistinct
    /\ ran[2].task \in ran[1].rest
    /\ ran[1].task.task_id > ran[2].task.task_id

\* C17: once the destructor has set stop_, no pending task is started: a
\* worker that finds stop_ set leaves worker_loop without popping, so the
\* join does not wait for the schedule_time of a pending task.
C17_NoStartAfterStop ==
    [][stop_ => /\ ran' = ran
                /\ \A w \in Workers :
                      wpc[w] = "w122" /\ wpc'[w] # "w122"
                         => wpc'[w] = "exited"]_vars

\* The workers that are still in worker_loop.
Live == {w \in Workers : wpc[w] \in {"w115", "w122", "wait", "w133"}}

\* C18: when the callable of a task throws in a worker of a
\* PriorityScheduler, the worker swallows the exception and goes on with its
\* loop; the number of live workers never decreases before shutdown begins.
C18_ThrowIsSwallowed ==
    [][/\ \A w \in Workers :
            wpc[w] = "w133" /\ wpc'[w] # "w133" => wpc'[w] = "w115"
       /\ ~stop_' => Live' = Live /\ Cardinality(Live) = thread_count]_vars

\* A worker has started another task after the callable of its previous
\* one threw, and no shutdown has begun.
C18_Witness ==
    /\ ~stop_
    /\ \E i, j \in 1..Len(ran) :
          /\ i < j /\ ran[i].w = ran[j].w
          /\ ran[i].task.task_id \in thrown

PendingDue(id) == \E t \in tasks_ : t.task_id = id /\ Due(t)

\* C13: a task submitted with schedule_after(d) to a scheduler that has a
\* worker is started by a worker once
\* its schedule_time is reached, with no further schedule call and no
\* shutdown to wake the worker (unless it is cancelled or the scheduler is
\* shut down first).
C13_DueTaskIsStarted ==
    \A id \in TaskIds :
       (thread_count > 0 /\ PendingDue(id))
          ~> (id \in Started \/ id \in cancelled \/ stop_)

\* ------------------------------------------------ WorkStealingScheduler claims
WsStarted == {ran[i].task : i \in 1..Len(ran)}
Terminated == \E w \in Workers : wpc[w] = "terminated"

\* C19: when the callable of a task throws inside a worker of a
\* WorkStealingScheduler, the worker survives and goes on popping and
\* stealing: the fault ends neither the worker thread nor the process.
C19_WorkerSurvivesThrow ==
    [][\A w \in Workers :
          wpc[w] \in {"w144", "w153"} /\ wpc'[w] # wpc[w]
             => wpc'[w] = "w139" /\ ~Terminated']_vars

\* C20: every task submitted to a WorkStealingScheduler with at least one
\* worker, by submit or
\* submit_batch, from a caller or from a task running on a worker, is
\* eventually started by a worker unless the scheduler is destroyed first.
C20_SubmittedTaskRuns ==
    \A id \in TaskIds :
       (thread_count > 0 /\ id \in submitted)
          ~> (id \in WsStarted \/ ~running_)

\* C21: a task submitted to a WorkStealingScheduler is executed at most
\* once, also when the owner's try_pop and a thief's try_steal work on the
\* same deque; once every task has run, there are as many executions as
\* submissions.
C21_ExecutedAtMostOnce ==
    /\ \A i, j \in 1..Len(ran) : ran[i].task = ran[j].task => i = j
    /\ kind = "stealing" /\ WsStarted = submitted
          => Len(ran) = Cardinality(submitted)

\* Two tasks pushed on one deque have both run, one popped by the owner and
\* one stolen by the other worker.
C21_Witness ==
    /\ kind = "stealing" /\ ~Terminated
    /\ Len(ran) = 2 /\ WsStarted = submitted
    /\ ran[1].w # ran[2].w
    /\ ran[1].stolen # ran[2].stolen

\* C22: when worker i (thread_count > i) calls submit or submit_batch from
\* inside a task, the index get_worker_index gives it is i, so that the task
\* goes to the tail of the deque that worker pops from.
C22_WorkerSubmitsToOwnDeque ==
    \A w \in Workers :
       cpc[ThreadOf(w)] \in {"sub85", "bat108", "bat112", "bat120"}
          => cloc[ThreadOf(w)].index = w - 1

\* The pushes of a finished submit_batch that went to deque q.
SentTo(th, q) == {k \in 1..Len(cloc[th].sent) : cloc[th].sent[k].queue = q}

\* C23: submit_batch pushes every task of the range onto exactly one deque:
\* with N deques and n tasks, each of the first N - 1 deques visited,
\* starting at the caller's index and wrapping, gets n \div N tasks and the
\* last deque visited gets the rest; no task is dropped or pushed twice.
C23_BatchIsDistributed ==
    \A th \in WsThreads :
       kind = "stealing" /\ cpc[th] = "bat120" =>
          LET c == cloc[th]
              n == Len(c.sent)
              N == thread_count
          IN  /\ c.todo = <<>>
              /\ \A k, l \in 1..n : c.sent[k].task = c.sent[l].task => k = l
              /\ \A k \in 0..(N - 2) :
                    Cardinality(SentTo(th, (c.index + k) % N)) = n \div N
              /\ Cardinality(SentTo(th, (c.index + N - 1) % N))
                    = n - (N - 1) * (n \div N)

\* A batch of one task was submitted to two deques by a thread of index 1:
\* deque 1, visited first, got nothing and deque 0 got the task.
C23_Witness ==
    \E th \in WsThreads :
       /\ kind = "stealing" /\ cpc[th] = "bat120" /\ thread_count = 2
       /\ cloc[th].index = 1
       /\ Len(cloc[th].sent) = 1 /\ cloc[th].sent[1].queue = 0

\* C24: a scheduler constructed with zero threads accepts submissions that
\* then never run: schedule on a PriorityScheduler and submit on a
\* WorkStealingScheduler with no thread return normally, and the task stays
\* pending.
C24_ZeroThreadsAcceptAndNeverRun ==
    thread_count = 0 =>
       /\ ~Terminated
       /\ ran = <<>>
       /\ kind = "priority" => submitted = Pending \cup cancelled
       /\ kind = "stealing" =>
             submitted = UNION {{queues_[q][k] : k \in 1..Len(queues_[q])} :
                                  q \in DOMAIN queues_}

\* ------------------------------------------------------------- MemoryPool
\* The blocks on the free list of pool p, head first (at most one pass over
\* the blocks, should the links form a cycle).
RECURSIVE FreeFrom(_, _, _)
FreeFrom(bn, n, fuel) ==
    IF n = nullptr \/ fuel = 0 THEN <<>>
    ELSE <<n>> \o FreeFrom(bn, bn[n], fuel - 1)

FreeList(p) == FreeFrom(p.bn, p.fl, Cardinality(Blocks) + 1)

\* The blocks whose object has been destroyed and that are not pushed yet.
Returning == {loc[t].node : t \in {u \in Threads : pc[u] = "dealloc50"}}

\* C29: whatever the interleaving of allocate and deallocate calls of
\* several threads, with every pointer deallocated at most once per
\* allocation, the block allocate_block hands out is a block of the pool
\* that no live allocation occupies, and no block of a live allocation is
\* on the free list: two live allocations never share an address.
C29_LiveAddressesDistinct ==
    /\ [](kind = "pool" => Range(FreeList(pool_)) \cap live = {})
    /\ [][\A t \in Threads :
             kind = "pool" /\ pc[t] = "idle" /\ pc'[t] = "alloc41"
                => loc'[t].node \in Blocks \ live]_vars

\* Two allocations are live at once, one of them in a block that was
\* allocated, deallocated and allocated again.
C29_Witness ==
    /\ kind = "pool"
    /\ live = {1, 2}
    /\ blk_next[1] = 3
    /\ \A t \in Threads : pc[t] = "idle"

\* No allocation is live and no call is under way.
Balanced == kind = "pool" /\ live = {} /\ \A t \in Threads : pc[t] = "idle"

\* Every slot of every chunk is live, being returned, or on the free list
\* exactly once.
NoSlotLeaked ==
    LET f == FreeList(pool_)
    IN  /\ Cardinality(Range(f)) = Len(f)
        /\ Range(f) \cap (live \cup Returning) = {}
        /\ Range(f) \cup live \cup Returning = 1..(chunks_ * ChunkBlocks)

\* A chunk is added only when the free list is empty, and none is released.
ChunkOnlyWhenEmpty ==
    /\ chunks_' >= chunks_
    /\ chunks_' # chunks_ => free_list_ = nullptr /\ chunks_' = chunks_ + 1

\* The free-list length after deallocate(allocate(x)) on the pool as it is.
AfterRoundTrip ==
    LET r == allocate_block(pool_)
    IN  Len(FreeList(deallocate(r.pool, r.ptr)))

\* C30 as stated: a chunk is allocated only when the free list is empty
\* and none is released, no slot is lost (so that after a balanced sequence
\* the free list holds every slot of every chunk exactly once), and
\* deallocate(allocate(x)) leaves the free-list length as it was.
C30_RoundTripKeepsLength ==
    /\ [](kind = "pool" =>
             /\ NoSlotLeaked
             /\ Balanced => Len(FreeList(pool_)) = chunks_ * ChunkBlocks
             /\ CanAllocate => AfterRoundTrip = Len(FreeList(pool_)))
    /\ [][kind = "pool" => ChunkOnlyWhenEmpty]_vars

\* C30 (amended): a chunk is allocated only when the free list is empty
\* and none is released, no slot is lost (so that after a balanced sequence
\* the free list holds every slot of every chunk exactly once, and a
\* repetition of the sequence finds the slots it needs), and
\* deallocate(allocate(x)) leaves the free-list length as it was when the
\* free list was not empty, and one chunk's slots longer when it was.
C30_NoSlotLeaked ==
    /\ [](kind = "pool" =>
             /\ NoSlotLeaked
             /\ Balanced => Len(FreeList(pool_)) = chunks_ * ChunkBlocks
             /\ CanAllocate =>
                   AfterRoundTrip = IF free_list_ = nullptr
                                    THEN Len(FreeList(pool_)) + ChunkBlocks
                                    ELSE Len(FreeList(pool_)))
    /\ [][kind = "pool" => ChunkOnlyWhenEmpty]_vars

\* A balanced state after allocations and deallocations that left the free
\* list in another order than the chunk's.
C30_Witness ==
    /\ Balanced
    /\ chunks_ = 1
    /\ FreeList(pool_) = <<3, 1, 2>>

\* ------------------------------------------- TaskPool, ThreadPoolExecutor
\* The tasks a worker has taken from the queue.
TakenTasks == {ran[i].task : i \in 1..Len(ran)}
Ready(id) == id \in DOMAIN futures /\ futures[id] \in {"value", "exception"}

OutcomeOfOneExecution ==
    /\ \A i, j \in 1..Len(ran) : ran[i].task = ran[j].task => i = j
    /\ \A id \in DOMAIN futures :
          /\ Ready(id) => id \in TakenTasks
          /\ futures[id] = "exception" <=> id \in thrown
          /\ id \in thrown => id \in TakenTasks
    /\ \A w \in Workers : w <= thread_count =>
          wpc[w] \in {"lock", "wait", "w37", "w145", "exited"}

\* C26: in a TaskPool or ThreadPoolExecutor with at least one worker, the
\* future of every accepted task is eventually fulfilled, with the outcome
\* of the one execution of its callable (the value, or the exception it
\* threw), and a throwing task leaves the worker running.
C26_FutureIsFulfilled ==
    /\ [](InPool => OutcomeOfOneExecution)
    /\ \A id \in 1..MaxTasks :
          (InPool /\ thread_count > 0 /\ id \in submitted) ~> Ready(id)

\* The only worker ran a task that threw, and then ran the next task.
C26_Witness ==
    /\ InPool
    /\ thread_count = 1
    /\ futures = <<"exception", "value">>
    /\ ran[1].task = 1

\* C27: queued_tasks() is the number of the tasks enqueued by submit that
\* no worker has taken; the queue changes only by a submit appending its
\* task or by a worker taking the task at the front, so the waiting tasks
\* stay in submission order; and when every returned future is ready the
\* queue is empty.
C27_QueuedTasksAreTheUntaken ==
    /\ [](kind = "taskpool" =>
             /\ Len(tasks_) = Cardinality(submitted \ TakenTasks)
             /\ Range(tasks_) = submitted \ TakenTasks
             /\ (\A id \in submitted : Ready(id)) => Len(tasks_) = 0)
    /\ [][kind = "taskpool" /\ tasks_' # tasks_ =>
             \/ \E id \in submitted' \ submitted : tasks_' = Append(tasks_, id)
             \/ /\ tasks_ # <<>>
                /\ tasks_' = Tail(tasks_)
                /\ ran' = Append(ran, ran'[Len(ran')])
                /\ ran'[Len(ran')].task = Head(tasks_)]_vars

\* The only worker is busy with the first task, the second one waits, and
\* the future of the first is not ready.
C27_Witness ==
    /\ kind = "taskpool"
    /\ thread_count = 1
    /\ wpc[1] = "w37"
    /\ tasks_ = <<2>>
    /\ futures = <<"pending", "pending">>

\* C28: a submit that reaches its critical section after the destructor has
\* set stop_ throws, and its task is not enqueued.
C28_SubmitAfterStopIsRejected ==
    [][\A th \in WsThreads :
          /\ InPool /\ stop_
          /\ cpc[th] \in {"sub64", "sub65"} /\ cpc'[th] # cpc[th]
          => /\ tasks_' = tasks_
             /\ cloc[th].task_id \in rejected']_vars

\* ------------------------------------------ MPMCQueue, MPMCChannel: nodes
\* The nodes reachable from n by next links, n included.
RECURSIVE NodesFrom(_, _)
NodesFrom(n, fuel) ==
    IF n = nullptr \/ fuel = 0 THEN {}
    ELSE {n} \cup NodesFrom(mem[n].next, fuel - 1)

Linked == NodesFrom(head_, Cardinality(Blocks))
\* The blocks on the pool's free list.
Freed == Range(FreeList(pool_))
\* The nodes a producer has allocated and not linked yet.
Unlinked ==
    {loc[t].node : t \in {u \in Threads :
        pc[u] \in {"enq40", "enq41", "enq43", "enq47", "enq48", "enq50",
                   "enq54", "enq57", "snd96", "snd97", "snd100", "snd102",
                   "snd108", "snd111"}}}
\* t is about to give loc[t].head back to the pool.
Deallocating(t) == pc[t] \in {"deq92", "rcv128"}

\* C33: in every reachable state the node tail_ points to is reachable from
\* the node head_ points to by next links (head_ is never past tail_).
C33_TailReachableFromHead == tail_ \in Linked

\* C34: a consumer gives back only a node that is not on the free list
\* already and that is not reachable from head_, and no two consumers are
\* about to give back the same node.
C34_NodeFreedOnce ==
    \A t \in Threads : Deallocating(t) =>
       /\ loc[t].head \notin Freed
       /\ loc[t].head \notin Linked
       /\ \A u \in Threads \ {t} : Deallocating(u) => loc[u].head # loc[t].head

\* C35: neither head_ nor tail_ points to a node that is on the free list
\* or that a producer has been handed and has not linked yet.
C35_NoDanglingHeadOrTail ==
    {head_, tail_} \cap (Freed \cup Unlinked) = {}

\* C36: at line 83 of try_dequeue, reached by the branch head != tail, the
\* next pointer read from head is not null.
C36_NextNotNullAtRead ==
    \A t \in Threads : pc[t] = "deq83" => loc[t].next # nullptr

\* C37: size_ is never decremented while it is 0: it never holds the
\* wrapped value of 0 - 1, and no fetch_sub finds it 0.
C37_SizeNeverWraps ==
    /\ [](size_ >= 0)
    /\ [][size_' = size_ - 1 => size_ > 0]_vars

\* C38: every value a try_receive has returned is a value that was passed
\* to try_send, not an emptied one, and no value is returned twice.
C38_ReceivedValuesAreSent ==
    kind = "channel" =>
       /\ \A i \in 1..Len(deq) : deq[i] \in 1..(nextVal - 1)
       /\ \A i, j \in 1..Len(deq) : deq[i] = deq[j] => i = j

\* ------------------------------------------ PriorityScheduler: a blocked top
\* A pending task that is not yet due and that Task::operator< puts above
\* the pending task id.
Outranked(id) ==
    \E t, u \in tasks_ :
       /\ t.task_id = id
       /\ ~Due(u)
       /\ TaskLess(t, u)

\* A worker that is not running a task.
IdleWorker == \E w \in Workers : wpc[w] \in {"w115", "wait"}

\* C39: a pending task of a PriorityScheduler whose schedule_time has passed
\* is eventually dispatched to an idle worker (unless it is cancelled or the
\* scheduler is shut down first), also while a task of higher priority whose
\* schedule_time is still in the future is in the heap.
C39_DueTaskBehindFutureTop ==
    \A id \in TaskIds :
       (IdleWorker /\ PendingDue(id) /\ Outranked(id))
          ~> (id \in Started \/ id \in cancelled \/ stop_)

\* ------------------------------------------- WorkStealingQueue: both ends
\* The record of the task a worker takes in this step.
Took == ran'[Len(ran')]

\* C40: a deque of a WorkStealingScheduler grows at the back only, so the
\* back is its most recently pushed task and the front the oldest; the
\* owner's try_pop takes the back (LIFO) and a thief's try_steal the front
\* (FIFO); a worker calls try_steal only on a deque other than its own, and
\* only after its own try_pop found its deque empty.
C40_OwnerLifoThiefFifo ==
    [][/\ \A q \in QueueIds :
            Len(queues_'[q]) > Len(queues_[q])
               => /\ Len(queues_'[q]) = Len(queues_[q]) + 1
                  /\ SubSeq(queues_'[q], 1, Len(queues_[q])) = queues_[q]
       /\ Len(ran') > Len(ran) =>
            LET w == Took.w
                own == queues_[w - 1]
            IN  IF Took.stolen
                THEN /\ wpc[w] = "w149"
                     /\ \E v \in QueueIds \ {w - 1} :
                          /\ queues_[v] # <<>>
                          /\ Took.task = Head(queues_[v])
                          /\ queues_' = [queues_ EXCEPT ![v] = Tail(queues_[v])]
                ELSE /\ wpc[w] = "w143"
                     /\ own # <<>>
                     /\ Took.task = own[Len(own)]
                     /\ queues_' = [queues_ EXCEPT
                                      ![w - 1] = SubSeq(own, 1, Len(own) - 1)]
       /\ \A w \in Workers :
            wpc'[w] = "w149" /\ wpc[w] # "w149"
               => wpc[w] = "w143" /\ queues_[w - 1] = <<>>]_vars

\* The owner has popped the younger of two tasks and a thief has then stolen
\* the older one.
C40_Witness ==
    /\ Len(ran) = 2
    /\ ~ran[1].stolen /\ ran[2].stolen
    /\ ran[1].w # ran[2].w
    /\ ran[1].task > ran[2].task

\* ------------------------------------------------- coroutine::Scheduler
\* The moves of a task's state within one run: Ready to Running, Running to
\* a final state or to Suspended, and Suspended back to Ready.
StateMoves ==
    {<<READY, RUNNING>>, <<RUNNING, COMPLETED>>, <<RUNNING, FAILED>>,
     <<RUNNING, CANCELLED>>, <<RUNNING, SUSPENDED>>, <<SUSPENDED, READY>>}

\* C31: in the coroutine Scheduler the state of a task that nobody cancels
\* moves only along Ready -> Running -> {Completed, Failed, Cancelled}, by
\* way of Suspended back to Ready when it suspends; the worker that
\* re-queues a suspended task leaves it in state Ready, and the worker that
\* dequeues a suspended task resumes it again.
C31_StateMovesForward ==
    [][/\ \A task \in TaskIds :
            ~cancelled_'[task] /\ state_'[task] # state_[task]
               => <<state_[task], state_'[task]>> \in StateMoves
       /\ \A w \in Workers :
            /\ (/\ wpc[w] = "co224" /\ wpc'[w] # "co224"
                /\ ~cancelled_'[wtask[w]])
                  => state_'[wtask[w]] = READY
            /\ (/\ wpc[w] = "co215" /\ wpc'[w] # "co215"
                /\ frame[wtask[w]] = "suspended"
                /\ ~cancelled_[wtask[w]])
                  => wpc'[w] = "co216"]_vars

\* C32: after cancel(task) of the coroutine Scheduler has returned no worker
\* starts a new resume() of the task, that is, none marks it Running to
\* resume it; a resume() in progress runs to its end whatever cancel does;
\* the cancellation flag, once set, stays set.
C32_NoResumeAfterCancel ==
    [][/\ \A w \in Workers :
            /\ wpc[w] = "co216" /\ wpc'[w] = "co218"
                  => wtask[w] \notin cancelled
            /\ wpc[w] = "resume" /\ wpc'[w] # "resume"
                  => wpc'[w] = "co219"
       /\ \A task \in TaskIds : cancelled_[task] => cancelled_'[task]]_vars
=============================================================================
